---- MODULE Spec2Model ----
(***************************************************************************)
(* A model of the fluentbae chat backend: the mood aggregator              *)
(* (EmotionTracker), the per-user memory list (RedisUtils / MemoryManager  *)
(* / LangChainMemoryManager) and the chat turn handler (POST /api/chat),   *)
(* over a key-value store whose commands are the atomic steps.             *)
(*                                                                         *)
(* Numbers: an intensity or importance x in [0,1] is the integer 1000*x    *)
(* (thousandths); a score is scaled by the factor named where it is        *)
(* computed. Time is counted in hours (now); a calendar day is 24 hours.   *)
(* A string is the sequence of its characters.                             *)
(***************************************************************************)
EXTENDS Integers, Sequences, FiniteSets, TLC

\* ------------------------------------------------------------------ bounds

\* Number of trackEmotion calls that may be in flight or finished.
MaxCalls == 2
\* Last hour the clock reaches.
MaxClock == 24

Users == {"u1", "u2"}
Calls == 1..MaxCalls
Days == 0..(MaxClock \div 24)

\* ------------------------------------------------------------------ helpers

Min(a, b) == IF a < b THEN a ELSE b
Max(a, b) == IF a > b THEN a ELSE b

\* The value JavaScript calls undefined, for an optional label or string.
Undefined == "undefined"

\* ------------------------------------------------------------------ strings

\* A string is the sequence of its characters, written out character by
\* character. (A sequence built by a function expression is prefixed with
\* << >> \o, which makes it a tuple of values: a function expression is
\* evaluated again at each application.)
UpperChars == << "A", "B", "C", "D", "E", "F", "G", "H", "I", "J", "K", "L", "M",
                 "N", "O", "P", "Q", "R", "S", "T", "U", "V", "W", "X", "Y", "Z" >>
LowerChars == << "a", "b", "c", "d", "e", "f", "g", "h", "i", "j", "k", "l", "m",
                 "n", "o", "p", "q", "r", "s", "t", "u", "v", "w", "x", "y", "z" >>

UpperSet == { UpperChars[k] : k \in 1..Len(UpperChars) }

LowerChar(c) ==
  IF c \in UpperSet
  THEN LowerChars[CHOOSE k \in 1..Len(UpperChars) : UpperChars[k] = c]
  ELSE c

\* String.prototype.toLowerCase.
toLowerCase(s) == << >> \o [i \in 1..Len(s) |-> LowerChar(s[i])]

\* String.prototype.includes: sub occurs in s as a substring.
includes(s, sub) ==
  \E i \in 0..(Len(s) - Len(sub)) : SubSeq(s, i + 1, i + Len(sub)) = sub

\* String.prototype.split(' '): the pieces between the spaces, empty pieces
\* kept; a string without a space (the empty string too) gives one piece.
split(s) ==
  LET sp == { i \in 1..Len(s) : s[i] = " " }
      n  == Cardinality(sp)
      cut(k) == IF k = 0 THEN 0
                ELSE IF k = n + 1 THEN Len(s) + 1
                ELSE CHOOSE p \in sp : Cardinality({ q \in sp : q < p }) = k - 1
  IN  << >> \o [k \in 1..(n + 1) |-> SubSeq(s, cut(k - 1) + 1, cut(k) - 1)]

\* Array.prototype.includes for an array of strings.
arrayIncludes(arr, x) == \E i \in 1..Len(arr) : arr[i] = x

\* arr.filter(pred).length for pred = "x is in other".
CountIn(arr, other) == Cardinality({ i \in 1..Len(arr) : arrayIncludes(other, arr[i]) })

\* keywords.filter(k => text.includes(k)).length
CountIncluded(keywords, text) ==
  Cardinality({ i \in 1..Len(keywords) : includes(text, keywords[i]) })

\* ------------------------------------------------------------------ emotions

\* EmotionType, in the order the code enumerates the labels.
EmotionOrder ==
  << "joy", "love", "excitement", "contentment", "gratitude",
     "sadness", "anger", "fear", "anxiety", "loneliness",
     "frustration", "disappointment", "neutral", "curious",
     "surprised", "confused" >>

EmotionTypes == { EmotionOrder[i] : i \in 1..Len(EmotionOrder) }

\* An Emotion value {primary, intensity, secondary?, context?}.
Emotion(p, i, s, c) == [primary |-> p, intensity |-> i, secondary |-> s, context |-> c]

\* The literal { primary: 'neutral', intensity: 0.5 }.
NeutralEmotion == Emotion("neutral", 500, Undefined, Undefined)

\* JSON.parse(JSON.stringify(e)) of an Emotion: the four fields are labels,
\* numbers and strings, which JSON keeps; an undefined field is dropped and
\* reads back as undefined.
JsonEmotion(e) ==
  [primary |-> e.primary, intensity |-> e.intensity,
   secondary |-> e.secondary, context |-> e.context]

\* A point in time held as a Date object (new Date()), at hour h.
DateStamp(h) == [kind |-> "Date", hour |-> h]

\* JSON.stringify turns a Date into its ISO string, and JSON.parse (no
\* reviver) leaves the string: a stored date reads back as a string.
JsonStamp(ts) == [kind |-> "string", hour |-> ts.hour]

\* ------------------------------------------------------------------ memories

\* Memory list constants, scaled down with their order kept
\* (top 5 < 100 < 200 < 1000 in the code).
\* addMemory: ltrim(key, 0, 999) keeps 1000 (gemini.ts:576).
MemoryListCap == 8
\* getMemories(userId, 200) in getRelevantMemories, getMemoriesByType,
\* updateMemoryAccess and searchMemories (memory.ts:123, gemini.ts:595,602,735).
RelevantWindow == 7
\* getMemories(userId, 100) in the ambient retrieval and getImportantMemories
\* (emotion-tracking.ts:464, memory.ts:174).
AmbientWindow == 6
\* slice(0, 5) of the ambient retrieval (emotion-tracking.ts:500).
AmbientTop == 5

MemoryTypes ==
  { "conversation", "preference", "event", "gift", "achievement", "concern",
    "dream", "memory" }

\* An absent optional argument (emotion?: Emotion, importance?: number).
NoEmotion == Emotion(Undefined, 0, Undefined, Undefined)
NoImportance == 0 - 1

\* importantKeywords of calculateImportance.
ImportanceKeywords ==
  << << "l", "o", "v", "e" >>, << "h", "a", "t", "e" >>, << "i", "m", "p", "o", "r", "t", "a", "n", "t" >>, << "s", "p", "e", "c", "i", "a", "l" >>,
     << "r", "e", "m", "e", "m", "b", "e", "r" >>, << "n", "e", "v", "e", "r", " ", "f", "o", "r", "g", "e", "t" >>, << "b", "i", "r", "t", "h", "d", "a", "y" >>,
     << "a", "n", "n", "i", "v", "e", "r", "s", "a", "r", "y" >>, << "p", "r", "o", "m", "o", "t", "i", "o", "n" >>, << "a", "c", "h", "i", "e", "v", "e", "m", "e", "n", "t" >>,
     << "g", "o", "a", "l" >>, << "d", "r", "e", "a", "m" >>, << "w", "i", "s", "h" >>, << "f", "e", "a", "r" >>, << "w", "o", "r", "r", "y" >>,
     << "e", "x", "c", "i", "t", "e", "d" >>, << "p", "r", "o", "u", "d" >> >>

\* MemoryManager.calculateImportance(content, emotion), in thousandths.
calculateImportance(content, emotion) ==
  LET fromEmotion ==
        IF emotion = NoEmotion THEN 0
        ELSE (emotion.intensity * 3) \div 10
             + (IF emotion.primary \in {"love", "joy", "excitement", "gratitude"}
                THEN 200 ELSE 0)
             + (IF emotion.primary \in {"sadness", "anger", "fear", "anxiety"}
                THEN 150 ELSE 0)
      keywordMatches == CountIncluded(ImportanceKeywords, toLowerCase(content))
      importance ==
        500 + fromEmotion + keywordMatches * 100
        + (IF Len(content) > 100 THEN 100 ELSE 0)
        + (IF Len(content) > 200 THEN 100 ELSE 0)
        + (IF includes(content, << "?" >>) THEN 50 ELSE 0)
  IN  Min(1000, Max(0, importance))

\* A keyword rule: the tag pushed when the text includes one of the keys.
TagRule(tag, keys) == [tag |-> tag, keys |-> keys]

\* aiUtils.detectTopics: the rules in the order of the if statements.
DetectTopicsRules ==
  << TagRule(<< "w", "o", "r", "k" >>, << << "w", "o", "r", "k" >>, << "j", "o", "b" >> >>),
     TagRule(<< "f", "a", "m", "i", "l", "y" >>, << << "f", "a", "m", "i", "l", "y" >>, << "h", "o", "m", "e" >> >>),
     TagRule(<< "h", "e", "a", "l", "t", "h" >>, << << "h", "e", "a", "l", "t", "h" >>, << "s", "i", "c", "k" >> >>),
     TagRule(<< "r", "e", "l", "a", "t", "i", "o", "n", "s", "h", "i", "p", "s" >>, << << "l", "o", "v", "e" >>, << "r", "e", "l", "a", "t", "i", "o", "n", "s", "h", "i", "p" >> >>),
     TagRule(<< "f", "o", "o", "d" >>, << << "f", "o", "o", "d" >>, << "e", "a", "t" >> >>),
     TagRule(<< "t", "r", "a", "v", "e", "l" >>, << << "t", "r", "a", "v", "e", "l" >>, << "t", "r", "i", "p" >> >>),
     TagRule(<< "h", "o", "b", "b", "i", "e", "s" >>, << << "h", "o", "b", "b", "y" >>, << "i", "n", "t", "e", "r", "e", "s", "t" >> >>),
     TagRule(<< "d", "r", "e", "a", "m", "s" >>, << << "d", "r", "e", "a", "m" >>, << "g", "o", "a", "l" >> >>) >>

\* The basicTags rules of MemoryManager.extractTags.
BasicTagRules ==
  << TagRule(<< "w", "o", "r", "k" >>, << << "w", "o", "r", "k" >>, << "j", "o", "b" >> >>),
     TagRule(<< "f", "a", "m", "i", "l", "y" >>, << << "f", "a", "m", "i", "l", "y" >>, << "m", "o", "m" >>, << "d", "a", "d" >> >>),
     TagRule(<< "f", "r", "i", "e", "n", "d", "s" >>, << << "f", "r", "i", "e", "n", "d" >> >>),
     TagRule(<< "r", "e", "l", "a", "t", "i", "o", "n", "s", "h", "i", "p", "s" >>, << << "l", "o", "v", "e" >>, << "r", "e", "l", "a", "t", "i", "o", "n", "s", "h", "i", "p" >> >>),
     TagRule(<< "t", "r", "a", "v", "e", "l" >>, << << "t", "r", "a", "v", "e", "l" >>, << "t", "r", "i", "p" >> >>),
     TagRule(<< "f", "o", "o", "d" >>, << << "f", "o", "o", "d" >>, << "e", "a", "t" >> >>),
     TagRule(<< "h", "e", "a", "l", "t", "h" >>, << << "h", "e", "a", "l", "t", "h" >>, << "e", "x", "e", "r", "c", "i", "s", "e" >> >>) >>

\* The tags a rule table pushes for a lower-cased text, in rule order.
MatchedTags(rules, lower) ==
  LET hit(r) == \E i \in 1..Len(r.keys) : includes(lower, r.keys[i])
      sel == SelectSeq(rules, hit)
  IN  << >> \o [i \in 1..Len(sel) |-> sel[i].tag]

detectTopics(message) ==
  LET topics == MatchedTags(DetectTopicsRules, toLowerCase(message))
  IN  IF Len(topics) > 0 THEN topics ELSE << << "g", "e", "n", "e", "r", "a", "l" >> >>

\* [...new Set(arr)]: the first occurrence of each element, in order.
Dedupe(arr) ==
  LET keep == { i \in 1..Len(arr) : \A j \in 1..(i-1) : arr[j] # arr[i] }
      nth(k) == CHOOSE i \in keep : Cardinality({ j \in keep : j < i }) = k - 1
  IN  << >> \o [k \in 1..Cardinality(keep) |-> arr[nth(k)]]

\* MemoryManager.extractTags(content).
extractTags(content) ==
  Dedupe(detectTopics(content) \o MatchedTags(BasicTagRules, toLowerCase(content)))

\* The Memory object createMemory builds, with the id uuidv4() returned.
NewMemory(id, u, content, type, emotion, tags, importance, t) ==
  [id |-> id, userId |-> u, content |-> content, type |-> type,
   importance |-> IF importance # NoImportance /\ importance # 0
                  THEN importance
                  ELSE calculateImportance(content, emotion),
   emotion |-> IF emotion # NoEmotion THEN emotion ELSE NeutralEmotion,
   tags |-> IF Len(tags) > 0 THEN tags ELSE extractTags(content),
   createdAt |-> DateStamp(t), lastAccessedAt |-> DateStamp(t)]

\* JSON.stringify of a Memory in addMemory: the two dates as ISO strings.
JsonMemory(m) ==
  [m EXCEPT !.emotion = JsonEmotion(m.emotion),
            !.createdAt = JsonStamp(m.createdAt),
            !.lastAccessedAt = JsonStamp(m.lastAccessedAt)]

\* The map of getMemories: JSON.parse, and new Date() of the two dates.
ParseMemory(sm) ==
  [sm EXCEPT !.createdAt = DateStamp(sm.createdAt.hour),
             !.lastAccessedAt = DateStamp(sm.lastAccessedAt.hour)]

\* lrange(key, 0, stop): the elements 0..stop; a negative stop counts from
\* the end of the list (-1 is the last element).
lrange(list, stop) ==
  LET end == IF stop < 0 THEN Len(list) + stop + 1 ELSE Min(Len(list), stop + 1)
  IN  SubSeq(list, 1, Max(0, end))

\* An addMemory without the ltrim: the list grows without bound.
addMemoryUntrimmed(list, memory) == << JsonMemory(memory) >> \o list

\* RedisUtils.addMemory: lpush, then ltrim(key, 0, cap - 1).
addMemory(list, memory) ==
  lrange(<< JsonMemory(memory) >> \o list, MemoryListCap - 1)

\* RedisUtils.getMemories(userId, limit) on the user's list.
getMemories(list, limit) ==
  LET raw == lrange(list, limit - 1)
  IN  << >> \o [i \in 1..Len(raw) |-> ParseMemory(raw[i])]

\* RedisUtils.updateMemoryAccess on the user's list at time t: the first
\* memory with the id among the newest 200 is pushed again with a new
\* lastAccessedAt.
updateMemoryAccess(list, memoryId, t) ==
  LET memories == getMemories(list, RelevantWindow)
      found == { i \in 1..Len(memories) : memories[i].id = memoryId }
  IN  IF found = {} THEN list
      ELSE LET first == CHOOSE i \in found : \A j \in found : i <= j
           IN  addMemory(list, [memories[first] EXCEPT !.lastAccessedAt = DateStamp(t)])

\* ------------------------------------------------------------------ retrieval

\* arr.sort((a, b) => b.score - a.score) for an array whose i-th element
\* has the score s[i]: descending, and stable (equal scores keep their
\* order).
StableSortDesc(arr, s) ==
  LET n == Len(arr)
      rank == << >> \o [i \in 1..n |->
                 Cardinality({ j \in 1..n : s[j] > s[i] \/ (s[j] = s[i] /\ j < i) })]
  IN  << >> \o [k \in 1..n |-> arr[CHOOSE i \in 1..n : rank[i] = k - 1]]

\* arr.slice(0, limit) for limit >= 0.
slice(arr, limit) == SubSeq(arr, 1, Min(Len(arr), limit))

\* The score of MemoryManager.getRelevantMemories, times
\* 10000 * queryWords.length (the same factor for every memory of one call):
\* importance * 0.4 + common / n * 0.4 + commonTags / n * 0.2.
RelevanceScore(memory, query) ==
  LET queryWords == split(toLowerCase(query))
      contentWords == split(toLowerCase(memory.content))
      memoryTags == << >> \o [i \in 1..Len(memory.tags) |-> toLowerCase(memory.tags[i])]
  IN  4 * memory.importance * Len(queryWords)
      + 4000 * CountIn(queryWords, contentWords)
      + 2000 * CountIn(queryWords, memoryTags)

\* The candidates of MemoryManager.getRelevantMemories: the newest 200,
\* filtered by type when types is given and non-empty (<< >> stands for an
\* absent types argument as well).
RelevantCandidates(list, types) ==
  LET allMemories == getMemories(list, RelevantWindow)
      ofType(m) == arrayIncludes(types, m.type)
  IN  IF Len(types) > 0 THEN SelectSeq(allMemories, ofType) ELSE allMemories

\* A getRelevantMemories whose comparator is a.score - b.score: ascending.
getRelevantMemoriesAscending(list, query, limit, types, fail) ==
  LET filteredMemories == RelevantCandidates(list, types)
      scores == << >> \o [i \in 1..Len(filteredMemories) |->
                          0 - RelevanceScore(filteredMemories[i], query)]
  IN  IF fail THEN << >>
      ELSE slice(StableSortDesc(filteredMemories, scores), limit)

\* MemoryManager.getRelevantMemories; fail: the read of the store throws,
\* and the catch returns [].
getRelevantMemories(list, query, limit, types, fail) ==
  LET filteredMemories == RelevantCandidates(list, types)
      scores == << >> \o [i \in 1..Len(filteredMemories) |->
                          RelevanceScore(filteredMemories[i], query)]
  IN  IF fail THEN << >>
      ELSE slice(StableSortDesc(filteredMemories, scores), limit)

\* RedisUtils.getMemoriesByType.
getMemoriesByType(list, type, limit) ==
  LET isType(m) == m.type = type
  IN  slice(SelectSeq(getMemories(list, RelevantWindow), isType), limit)

\* MemoryManager.getRecentMemories.
getRecentMemories(list, limit) ==
  LET allMemories == getMemories(list, limit)
      createdAt == << >> \o [i \in 1..Len(allMemories) |-> allMemories[i].createdAt.hour]
  IN  StableSortDesc(allMemories, createdAt)

\* MemoryManager.getImportantMemories.
getImportantMemories(list, limit) ==
  LET important(m) == m.importance > 700
      kept == SelectSeq(getMemories(list, AmbientWindow), important)
      importance == << >> \o [i \in 1..Len(kept) |-> kept[i].importance]
  IN  slice(StableSortDesc(kept, importance), limit)

\* RedisUtils.searchMemories.
searchMemories(list, query, limit) ==
  LET queryLower == toLowerCase(query)
      matches(m) ==
        \/ includes(toLowerCase(m.content), queryLower)
        \/ \E i \in 1..Len(m.tags) : includes(toLowerCase(m.tags[i]), queryLower)
  IN  slice(SelectSeq(getMemories(list, RelevantWindow), matches), limit)

\* The score of LangChainMemoryManager.getRelevantMemories at time t, times
\* 720000 (importance is in thousandths, and 30 days are 720 hours):
\* matches + 0.5 if non-neutral + importance + max(0, 1 - days / 30).
AmbientScore(memory, query, t) ==
  LET contentLower == toLowerCase(memory.content)
      words == split(toLowerCase(query))
      matches == Cardinality({ i \in 1..Len(words) :
                                 includes(contentLower, words[i]) /\ Len(words[i]) > 2 })
  IN  720000 * matches
      + (IF memory.emotion.primary # "neutral" THEN 360000 ELSE 0)
      + 720 * memory.importance
      + 1000 * Max(0, 720 - (t - memory.createdAt.hour))

\* An ambient retrieval that skips the sort: the newest five.
LangChain_getRelevantMemoriesNewest(list, query, t, fail) ==
  IF fail THEN << >> ELSE slice(getMemories(list, AmbientWindow), AmbientTop)

\* LangChainMemoryManager.getRelevantMemories at time t; fail: the read of
\* the store throws, and the catch returns [].
LangChain_getRelevantMemories(list, query, t, fail) ==
  LET allMemories == getMemories(list, AmbientWindow)
      scores == << >> \o [i \in 1..Len(allMemories) |->
                          AmbientScore(allMemories[i], query, t)]
  IN  IF fail THEN << >>
      ELSE slice(StableSortDesc(allMemories, scores), AmbientTop)

\* The keyword rules of fallbackEmotionAnalysis, in the order of the if
\* statements; an emoji is its UTF-16 code units.
FallbackEmotionRules ==
  << [keys |-> << << "l", "o", "v", "e" >>, << "u2764", "uFE0F" >>, << "uD83D", "uDC95" >> >>,
      emotion |-> Emotion("love", 800, Undefined, Undefined)],
     [keys |-> << << "h", "a", "p", "p", "y" >>, << "uD83D", "uDE0A" >>, << "j", "o", "y" >> >>,
      emotion |-> Emotion("joy", 700, Undefined, Undefined)],
     [keys |-> << << "s", "a", "d" >>, << "uD83D", "uDE22" >>, << "c", "r", "y" >> >>,
      emotion |-> Emotion("sadness", 600, Undefined, Undefined)],
     [keys |-> << << "a", "n", "g", "r", "y" >>, << "uD83D", "uDE20" >>, << "m", "a", "d" >> >>,
      emotion |-> Emotion("anger", 700, Undefined, Undefined)],
     [keys |-> << << "w", "o", "r", "r", "i", "e", "d" >>, << "uD83D", "uDE30" >>, << "a", "n", "x", "i", "o", "u", "s" >> >>,
      emotion |-> Emotion("anxiety", 600, Undefined, Undefined)],
     [keys |-> << << "e", "x", "c", "i", "t", "e", "d" >>, << "uD83E", "uDD29" >>, << "t", "h", "r", "i", "l", "l", "e", "d" >> >>,
      emotion |-> Emotion("excitement", 800, Undefined, Undefined)] >>

\* A fallbackEmotionAnalysis whose rules are tried last to first.
fallbackEmotionAnalysisLastRule(message) ==
  LET messageLower == toLowerCase(message)
      hits == { i \in 1..Len(FallbackEmotionRules) :
                  \E k \in 1..Len(FallbackEmotionRules[i].keys) :
                     includes(messageLower, FallbackEmotionRules[i].keys[k]) }
  IN  IF hits = {} THEN NeutralEmotion
      ELSE FallbackEmotionRules[CHOOSE i \in hits : \A j \in hits : i >= j].emotion

\* fallbackEmotionAnalysis(message): the first rule with a keyword in the
\* lower-cased message, else neutral.
fallbackEmotionAnalysis(message) ==
  LET messageLower == toLowerCase(message)
      hits == { i \in 1..Len(FallbackEmotionRules) :
                  \E k \in 1..Len(FallbackEmotionRules[i].keys) :
                     includes(messageLower, FallbackEmotionRules[i].keys[k]) }
  IN  IF hits = {} THEN NeutralEmotion
      ELSE FallbackEmotionRules[CHOOSE i \in hits : \A j \in hits : i <= j].emotion

\* What the model call of analyzeEmotion can come back with: it throws (or
\* the reply is not JSON), or the reply parses to these fields.
LlmThrows == [ok |-> FALSE, primary |-> "", intensity |-> 0,
              secondary |-> Undefined, context |-> Undefined]

LlmReplies ==
  { [ok |-> TRUE, primary |-> "sadness", intensity |-> 900,
     secondary |-> "fear", context |-> "work"],
    [ok |-> TRUE, primary |-> "", intensity |-> 0,
     secondary |-> Undefined, context |-> Undefined] }

LlmOutcomes == {LlmThrows} \cup LlmReplies

\* The Emotion both analyzeEmotion methods build from a parsed reply:
\* primary || 'neutral', and intensity || 0.5 clamped to [0, 1].
ParseEmotionReply(llm) ==
  Emotion(IF llm.primary # "" THEN llm.primary ELSE "neutral",
          Max(0, Min(1000, IF llm.intensity # 0 THEN llm.intensity ELSE 500)),
          llm.secondary, llm.context)

\* The outcomes of analyzeEmotion's model call for a message: a message
\* shorter than 20 characters makes no call (LlmThrows stands for none).
ModelCalls(message) == IF Len(message) < 20 THEN {LlmThrows} ELSE LlmOutcomes

\* LangChainMemoryManager.analyzeEmotion(message) when the model call comes
\* back with llm.
analyzeEmotion(message, llm) ==
  IF Len(message) < 20 THEN fallbackEmotionAnalysis(message)
  ELSE IF ~llm.ok THEN fallbackEmotionAnalysis(message)
  ELSE ParseEmotionReply(llm)

\* GeminiAI.analyzeEmotion(message) when the model call comes back with llm.
GeminiAI_analyzeEmotion(message, llm) ==
  IF ~llm.ok THEN fallbackEmotionAnalysis(message) ELSE ParseEmotionReply(llm)

\* ------------------------------------------------------------------ state

VARIABLES
  now,        \* the clock, in hours (new Date(), Date.now())
  moodStore,  \* moodStore[u][d]: the hash stored at mood:<u>:<d>
  userStore,  \* userStore[u]: the hash stored at user:<u>
  calls,      \* calls[c]: one trackEmotion invocation, its position and locals
  lastOp,     \* the operation that reported last, and the Emotion it returned
  memStore,   \* memStore[u]: the list stored at memory:<u>, newest first
  nextId,     \* the next id uuidv4() / crypto.randomUUID() hands out
  created,    \* created[id]: the arguments createMemory(id) was called with
  ops,        \* number of memory writes made so far
  req,        \* the arguments of the retrieval taken last
  result,     \* the memories the retrieval taken last returned
  chatStore,  \* chatStore[u]: the list stored at chat:<u>, newest first
  turns,      \* turns[t]: one POST /api/chat request, its position and locals
  moodSeen,   \* moodSeen[u]: what getCurrentMood last returned for u
  giftStore,  \* giftStore[u]: the sorted set stored at gifts:<u>
  ai          \* one GeminiAI instance: its rate-limit fields and its call in flight

vars == << now, moodStore, userStore, calls, lastOp, memStore, nextId, created,
           ops, req, result, chatStore, turns, moodSeen, giftStore, ai >>

memVars == << memStore, nextId, created, ops >>
searchVars == << req, result >>
chatVars == << chatStore, turns, moodSeen >>
auxVars == << giftStore, ai >>

\* ------------------------------------------------------------------ the rate limiter

\* The fields of a GeminiAI instance, in milliseconds.
RATE_LIMIT_DELAY == 1000
MAX_REQUESTS_PER_MINUTE == 10

\* One minute, the window MAX_REQUESTS_PER_MINUTE is named after.
OneMinute == 60 * RATE_LIMIT_DELAY

\* Most calls one GeminiAI instance takes in one behaviour, and the last
\* instant of its clock.
MaxRequests == 11
MaxAiClock == MaxRequests * RATE_LIMIT_DELAY

\* The instant no invocation of the service has been made at.
Never == 0 - 1

\* A GeminiAI instance as its constructor leaves it, and no call in flight.
\* clock is Date.now() counted from the construction of the instance less
\* RATE_LIMIT_DELAY (Date.now() is far beyond lastRequestTime = 0, so the
\* first call never sleeps). pc is the position of the call in flight,
\* captured the `now` it read, wake the instant its timer fires; invocations
\* counts the calls of model.generateContent, made first at firstInvoked
\* and the last two at prevInvoked and lastInvoked.
IdleAi ==
  [clock |-> RATE_LIMIT_DELAY, lastRequestTime |-> 0, requestCount |-> 0,
   pc |-> "idle", captured |-> 0, wake |-> 0,
   invocations |-> 0, firstInvoked |-> Never, prevInvoked |-> Never,
   lastInvoked |-> Never]

\* ------------------------------------------------------------------ the mood hash

\* A hash that holds no field (hGetAll of a missing key returns {}). The
\* values of fields outside `keys` are fillers and are never read.
EmptyMoodHash ==
  [keys |-> {}, date |-> 0, overallMood |-> NeutralEmotion,
   moodHistory |-> << >>, triggers |-> << >>, notes |-> ""]

\* The hash user:<u> before any write.
EmptyUserHash == [keys |-> {}, currentMood |-> NeutralEmotion]

JsonEntry(en) ==
  [emotion |-> en.emotion, intensity |-> en.intensity,
   timestamp |-> JsonStamp(en.timestamp), context |-> en.context]

\* JSON.parse(JSON.stringify(history)) of an EmotionEntry[].
JsonHistory(h) == [i \in 1..Len(h) |-> JsonEntry(h[i])]

\* ------------------------------------------------------------------ calculateOverallMood

\* 1000 * exp(-h/24) for h = 0, 6, 12, ... hours.
DecayTable ==
  << 1000, 779, 607, 472, 368, 287, 223, 174, 135, 105, 82, 64, 50, 39, 30,
     24, 18, 14, 11, 9, 7, 5, 4, 3, 2, 2, 2, 1, 1 >>

\* Math.exp(-hoursAgo / 24), in thousandths; it stays positive.
DecayWeight(hoursAgo) ==
  LET i == (hoursAgo \div 6) + 1
  IN  IF i <= Len(DecayTable) THEN DecayTable[i] ELSE 1

\* entry.timestamp.getTime() is a TypeError unless the timestamp is a Date.
GetTimeThrows(h) == \E i \in 1..Len(h) : h[i].timestamp.kind # "Date"

\* weightedEmotions[label] after the loop over the history.
WeightedEmotion(h, label, t) ==
  LET f[i \in 0..Len(h)] ==
        IF i = 0 THEN 0
        ELSE f[i-1] + (IF h[i].emotion = label
                       THEN h[i].intensity * DecayWeight(t - h[i].timestamp.hour)
                       ELSE 0)
  IN  f[Len(h)]

\* totalWeight after the loop over the history.
TotalWeight(h, t) ==
  LET f[i \in 0..Len(h)] ==
        IF i = 0 THEN 0 ELSE f[i-1] + DecayWeight(t - h[i].timestamp.hour)
  IN  f[Len(h)]

\* The loop with `weight >= maxWeight` in place of `weight > maxWeight`: the
\* last label reaching the greatest weight.
DominantEmotionLast(h, t) ==
  LET n == Len(EmotionOrder)
      w == [k \in 1..n |-> WeightedEmotion(h, EmotionOrder[k], t)]
      best == CHOOSE k \in 1..n :
                /\ \A j \in 1..n : w[j] <= w[k]
                /\ \A j \in (k+1)..n : w[j] < w[k]
  IN  IF w[best] > 0
      THEN [emotion |-> EmotionOrder[best], weight |-> w[best]]
      ELSE [emotion |-> "neutral", weight |-> 0]

\* The loop over Object.entries(weightedEmotions), from maxWeight = 0 and
\* dominantEmotion = 'neutral': a label replaces the dominant one only when
\* its weight is strictly above the maximum so far, so the result is the
\* first label, in enumeration order, that reaches the greatest weight,
\* and 'neutral' with weight 0 when no weight is positive.
DominantEmotion(h, t) ==
  LET n == Len(EmotionOrder)
      w == [k \in 1..n |-> WeightedEmotion(h, EmotionOrder[k], t)]
      best == CHOOSE k \in 1..n :
                /\ \A j \in 1..n : w[j] <= w[k]
                /\ \A j \in 1..(k-1) : w[j] < w[k]
  IN  IF w[best] > 0
      THEN [emotion |-> EmotionOrder[best], weight |-> w[best]]
      ELSE [emotion |-> "neutral", weight |-> 0]

\* calculateOverallMood(emotionHistory) at time t, for a history whose
\* timestamps are Dates.
calculateOverallMood(h, t) ==
  IF Len(h) = 0 THEN NeutralEmotion
  ELSE LET dom == DominantEmotion(h, t)
           tot == TotalWeight(h, t)
           avg == IF tot > 0 THEN dom.weight \div tot ELSE 500
       IN  Emotion(dom.emotion, Min(1000, Max(0, avg)), Undefined, Undefined)

\* ------------------------------------------------------------------ trackEmotion

\* The emotions passed to trackEmotion.
EmotionInputs ==
  { Emotion("joy", 800, Undefined, Undefined),
    Emotion("sadness", 600, "fear", "a bad day"),
    Emotion("joy", 0, Undefined, Undefined) }

\* The optional trigger argument.
TriggerInputs == { Undefined, "work" }

Today(t) == t \div 24

IdleCall ==
  [pc |-> "idle", user |-> "u1", emotion |-> NeutralEmotion, today |-> 0,
   concurrent |-> FALSE,
   entry |-> [emotion |-> "neutral", intensity |-> 500,
              timestamp |-> DateStamp(0), context |-> Undefined],
   tracking |-> [date |-> 0, overallMood |-> NeutralEmotion,
                 moodHistory |-> << >>, triggers |-> << >>, notes |-> Undefined]]

InFlight(c) == calls[c].pc \in {"hSet", "setUserData"}
Returned(c) == calls[c].pc \in {"done", "threw"}

\* Lines 28-47: the MoodTracking built from the hash hGetAll returned.
\* JSON.parse(undefined) is a SyntaxError: parsing a field the hash lacks
\* throws, except where the code supplies '[]'.
ParseThrows(hash) == hash.keys # {} /\ "overallMood" \notin hash.keys

LoadTracking(hash, emotion, t) ==
  IF hash.keys # {}
  THEN [date |-> hash.date,
        overallMood |-> hash.overallMood,
        moodHistory |-> IF "moodHistory" \in hash.keys THEN hash.moodHistory ELSE << >>,
        triggers |-> IF "triggers" \in hash.keys THEN hash.triggers ELSE << >>,
        notes |-> IF "notes" \in hash.keys THEN hash.notes ELSE Undefined]
  ELSE [date |-> t, overallMood |-> emotion, moodHistory |-> << >>,
        triggers |-> << >>, notes |-> Undefined]

\* Lines 49-58: push the entry, recompute the overall mood, add the trigger.
UpdateTracking(mt, entry, trigger, t) ==
  LET h == Append(mt.moodHistory, entry)
  IN  [mt EXCEPT !.moodHistory = h,
                 !.overallMood = calculateOverallMood(h, t),
                 !.triggers = IF trigger # Undefined
                                 /\ \A i \in 1..Len(mt.triggers) : mt.triggers[i] # trigger
                              THEN Append(mt.triggers, trigger)
                              ELSE mt.triggers]

\* Lines 61-67: the five fields hSet writes.
TrackingHash(mt) ==
  [keys |-> {"date", "overallMood", "moodHistory", "triggers", "notes"},
   date |-> mt.date,
   overallMood |-> JsonEmotion(mt.overallMood),
   moodHistory |-> JsonHistory(mt.moodHistory),
   triggers |-> mt.triggers,
   notes |-> IF mt.notes = Undefined THEN "" ELSE mt.notes]

\* What getCurrentMood last returned for a user, since the last
\* trackEmotion step for that user.
NotSeen == [seen |-> FALSE, mood |-> NeutralEmotion]
ForgetMood(u) == [moodSeen EXCEPT ![u] = NotSeen]

\* Lines 17-58: the call starts, hGetAll reads today's hash, and the new
\* record is computed; an exception ends the call.
TrackRead(c, u, e, ctx, trigger) ==
  /\ calls[c].pc = "idle"
  /\ IF c = 1 THEN TRUE ELSE calls[c-1].pc # "idle"
  /\ LET entry == [emotion |-> e.primary, intensity |-> e.intensity,
                   timestamp |-> DateStamp(now), context |-> ctx]
         today == Today(now)
         hash  == moodStore[u][today]
         mt    == LoadTracking(hash, e, now)
         throws == ParseThrows(hash)
                     \/ GetTimeThrows(Append(mt.moodHistory, entry))
         overlap == \E o \in Calls : o # c /\ InFlight(o) /\ calls[o].user = u
     IN  /\ calls' = [o \in Calls |->
                        IF o = c
                        THEN [pc |-> IF throws THEN "threw" ELSE "hSet",
                              user |-> u, emotion |-> e, today |-> today,
                              concurrent |-> overlap, entry |-> entry,
                              tracking |-> IF throws THEN IdleCall.tracking
                                           ELSE UpdateTracking(mt, entry, trigger, now)]
                        ELSE IF overlap /\ InFlight(o) /\ calls[o].user = u
                        THEN [calls[o] EXCEPT !.concurrent = TRUE]
                        ELSE calls[o]]
         /\ lastOp' = [op |-> "trackEmotion.hGetAll", user |-> u, call |-> c,
                       result |-> NeutralEmotion]
  /\ moodSeen' = ForgetMood(u)
  /\ UNCHANGED << now, auxVars, moodStore, userStore, memVars, searchVars, chatStore, turns >>

\* Lines 61-67: hSet of today's hash.
TrackWrite(c) ==
  /\ calls[c].pc = "hSet"
  /\ moodStore' = [moodStore EXCEPT ![calls[c].user][calls[c].today] =
                      TrackingHash(calls[c].tracking)]
  /\ calls' = [calls EXCEPT ![c].pc = "setUserData"]
  /\ lastOp' = [op |-> "trackEmotion.hSet", user |-> calls[c].user, call |-> c,
                result |-> NeutralEmotion]
  /\ moodSeen' = ForgetMood(calls[c].user)
  /\ UNCHANGED << now, auxVars, userStore, memVars, searchVars, chatStore, turns >>

\* RedisUtils.setUserData(userId, {currentMood: ...}): hset of one field.
SetCurrentMood(store, u, e) ==
  [store EXCEPT ![u] = [@ EXCEPT !.keys = @ \cup {"currentMood"},
                                 !.currentMood = JsonEmotion(e)]]

\* Lines 69-72: the call's last step.
TrackSetMood(c) ==
  /\ calls[c].pc = "setUserData"
  /\ userStore' = SetCurrentMood(userStore, calls[c].user, calls[c].emotion)
  /\ calls' = [calls EXCEPT ![c].pc = "done"]
  /\ lastOp' = [op |-> "trackEmotion.done", user |-> calls[c].user, call |-> c,
                result |-> NeutralEmotion]
  /\ moodSeen' = ForgetMood(calls[c].user)
  /\ UNCHANGED << now, auxVars, moodStore, memVars, searchVars, chatStore, turns >>

\* EmotionTracker.getCurrentMood.
CurrentMoodOf(store, u) ==
  IF "currentMood" \in store[u].keys THEN store[u].currentMood ELSE NeutralEmotion

GetCurrentMood(u) ==
  /\ lastOp' = [op |-> "getCurrentMood", user |-> u, call |-> 0,
                result |-> CurrentMoodOf(userStore, u)]
  /\ moodSeen' = [moodSeen EXCEPT ![u] = [seen |-> TRUE,
                                          mood |-> CurrentMoodOf(userStore, u)]]
  /\ UNCHANGED << now, auxVars, moodStore, userStore, calls, memVars, searchVars, chatStore, turns >>

\* The clock advances by half a day.
Tick ==
  /\ now + 12 <= MaxClock
  /\ now' = now + 12
  /\ lastOp' = [op |-> "tick", user |-> "u1", call |-> 0, result |-> NeutralEmotion]
  /\ UNCHANGED << moodStore, userStore, calls, memVars, searchVars, chatVars, auxVars >>

\* ------------------------------------------------------------------ memory operations

\* Most memory writes (createMemory, updateMemoryAccess) in one behaviour.
MaxOps == 3
\* Largest limit argument of a retrieval.
MaxLimit == 2

Limits == 0..MaxLimit

\* The arguments of a retrieval, as the last retrieval got them.
EmptyReq == [query |-> << >>, limit |-> 0, types |-> << >>,
             historyFail |-> FALSE, memFail |-> FALSE, llm |-> LlmThrows]

\* Arguments createMemory is called with; `given` names the optional
\* arguments that are passed, the others hold the value the code sees for an
\* absent argument (tags = [] by default).
MemoryInputs ==
  << [content |-> << "I", " ", "l", "o", "v", "e", " ", "m", "y", " ", "j", "o", "b" >>, type |-> "preference", emotion |-> NoEmotion,
      tags |-> << >>, importance |-> NoImportance, given |-> {}],
     [content |-> << "m", "o", "m", " ", "i", "s", " ", "s", "i", "c", "k" >>, type |-> "concern",
      emotion |-> Emotion("sadness", 600, Undefined, Undefined),
      tags |-> << << "m", "o", "m" >> >>, importance |-> 900,
      given |-> {"emotion", "tags", "importance"}],
     [content |-> << "h", "e", "l", "l", "o" >>, type |-> "conversation", emotion |-> NoEmotion,
      tags |-> << << "g", "r", "e", "e", "t", "i", "n", "g" >> >>, importance |-> 0,
      given |-> {"tags", "importance"}],
     [content |-> << "m", "y", " ", "b", "i", "r", "t", "h", "d", "a", "y", " ", "t", "r", "i", "p" >>, type |-> "event",
      emotion |-> Emotion("joy", 800, Undefined, Undefined),
      tags |-> << << "T", "r", "i", "p" >> >>, importance |-> NoImportance,
      given |-> {"emotion", "tags"}],
     [content |-> << "n", "e", "w", " ", "j", "o", "b", " ", "a", "t", " ", "w", "o", "r", "k" >>, type |-> "event", emotion |-> NoEmotion,
      tags |-> << >>, importance |-> 300, given |-> {"tags", "importance"}] >>

CreateInputs == { MemoryInputs[i] : i \in 1..Len(MemoryInputs) }

Queries == { << "l", "o", "v", "e", " ", "j", "o", "b" >>, << "m", "y", " ", "w", "o", "r", "k", " ", "t", "r", "i", "p" >> }

TypeFilters == { << >>, << "event", "concern" >> }

\* MemoryManager.createMemory(content, type, emotion, tags, importance) of
\* user u's manager.
CreateMemory(u, a) ==
  /\ ops < MaxOps
  /\ LET memory == NewMemory(nextId, u, a.content, a.type, a.emotion, a.tags,
                             a.importance, now)
     IN  /\ memStore' = [memStore EXCEPT ![u] = addMemory(@, memory)]
         /\ result' = << memory >>
  /\ created' = Append(created, [user |-> u, content |-> a.content, type |-> a.type,
                                 emotion |-> a.emotion, tags |-> a.tags,
                                 importance |-> a.importance, given |-> a.given])
  /\ nextId' = nextId + 1
  /\ ops' = ops + 1
  /\ lastOp' = [op |-> "createMemory", user |-> u, call |-> nextId,
                result |-> NeutralEmotion]
  /\ UNCHANGED << now, auxVars, moodStore, userStore, calls, req, chatVars >>

\* updateMemoryAccess applied to the list of every user, not to the list
\* memory:<u> alone.
UpdateMemoryAccessAnyUser(u, memoryId) ==
  /\ ops < MaxOps
  /\ memStore' = [b \in Users |-> updateMemoryAccess(memStore[b], memoryId, now)]
  /\ ops' = ops + 1
  /\ lastOp' = [op |-> "updateMemoryAccess", user |-> u, call |-> memoryId,
                result |-> NeutralEmotion]
  /\ UNCHANGED << now, auxVars, moodStore, userStore, calls, nextId, created, searchVars,
                  chatVars >>

\* MemoryManager.updateMemoryAccess(memoryId) of user u's manager.
UpdateMemoryAccess(u, memoryId) ==
  /\ ops < MaxOps
  /\ memStore' = [memStore EXCEPT ![u] = updateMemoryAccess(@, memoryId, now)]
  /\ ops' = ops + 1
  /\ lastOp' = [op |-> "updateMemoryAccess", user |-> u, call |-> memoryId,
                result |-> NeutralEmotion]
  /\ UNCHANGED << now, auxVars, moodStore, userStore, calls, nextId, created, searchVars,
                  chatVars >>

\* A retrieval of user u's manager: it sets what it was asked and what it
\* returned.
Retrieved(op, u, asked, returned, mood) ==
  /\ req' = asked
  /\ result' = returned
  /\ lastOp' = [op |-> op, user |-> u, call |-> 0, result |-> mood]
  /\ UNCHANGED << now, auxVars, moodStore, userStore, calls, chatVars >>

\* A getRelevantMemories that also refreshes lastAccessedAt of what it returns.
GetRelevantMemoriesTouch(u, query, limit, types, fail) ==
  /\ Retrieved("getRelevantMemories", u,
               [EmptyReq EXCEPT !.query = query, !.limit = limit, !.types = types,
                                !.memFail = fail],
               getRelevantMemories(memStore[u], query, limit, types, fail),
               NeutralEmotion)
  /\ memStore' = [memStore EXCEPT ![u] =
                    [i \in 1..Len(@) |->
                       IF \E k \in 1..Len(result') : result'[k].id = @[i].id
                       THEN [@[i] EXCEPT !.lastAccessedAt = JsonStamp(DateStamp(now + 1))]
                       ELSE @[i]]]
  /\ UNCHANGED << nextId, created, ops >>

GetRelevantMemories(u, query, limit, types, fail) ==
  /\ Retrieved("getRelevantMemories", u,
               [EmptyReq EXCEPT !.query = query, !.limit = limit, !.types = types,
                                !.memFail = fail],
               getRelevantMemories(memStore[u], query, limit, types, fail),
               NeutralEmotion)
  /\ UNCHANGED memVars

GetMemoriesByType(u, type, limit) ==
  /\ Retrieved("getMemoriesByType", u,
               [EmptyReq EXCEPT !.limit = limit, !.types = << type >>],
               getMemoriesByType(memStore[u], type, limit), NeutralEmotion)
  /\ UNCHANGED memVars

GetRecentMemories(u, limit) ==
  /\ Retrieved("getRecentMemories", u, [EmptyReq EXCEPT !.limit = limit],
               getRecentMemories(memStore[u], limit), NeutralEmotion)
  /\ UNCHANGED memVars

GetImportantMemories(u, limit) ==
  /\ Retrieved("getImportantMemories", u, [EmptyReq EXCEPT !.limit = limit],
               getImportantMemories(memStore[u], limit), NeutralEmotion)
  /\ UNCHANGED memVars

SearchMemories(u, query, limit) ==
  /\ Retrieved("searchMemories", u,
               [EmptyReq EXCEPT !.query = query, !.limit = limit],
               searchMemories(memStore[u], query, limit), NeutralEmotion)
  /\ UNCHANGED memVars

\* LangChainMemoryManager.getConversationContext(userMessage) at time t:
\* historyFail: getChatHistory (or the summary load) throws, and the outer
\* catch returns the default context; memFail: the read of the memory list
\* throws inside getRelevantMemories.
getConversationContext(list, userMessage, t, historyFail, memFail, llm) ==
  IF historyFail
  THEN [relevantMemories |-> << >>, currentMood |-> NeutralEmotion]
  ELSE [relevantMemories |-> LangChain_getRelevantMemories(list, userMessage, t, memFail),
        currentMood |-> analyzeEmotion(userMessage, llm)]

ContextMessages == Queries \cup { << "I", " ", "a", "m", " ", "w", "o", "r", "r", "i", "e", "d", " ", "a", "b", "o", "u", "t", " ", "m", "y", " ", "n", "e", "w", " ", "j", "o", "b", " ", "a", "t", " ", "w", "o", "r", "k" >> }

GetConversationContext(u, userMessage, historyFail, memFail, llm) ==
  /\ llm \in ModelCalls(userMessage)
  /\ LET context == getConversationContext(memStore[u], userMessage, now,
                                        historyFail, memFail, llm)
     IN  Retrieved("getConversationContext", u,
                   [EmptyReq EXCEPT !.query = userMessage, !.historyFail = historyFail,
                                    !.memFail = memFail, !.llm = llm],
                   context.relevantMemories, context.currentMood)
  /\ UNCHANGED memVars

\* ------------------------------------------------------------------ chat turns

\* Requests (POST /api/chat, POST /api/user) in one behaviour.
MaxTurns == 2
Turns == 1..MaxTurns

\* addChatMessage: ltrim(key, 0, 99) keeps 100 messages.
ChatListCap == 100

ChatInputs == { << "h", "i", " ", "t", "h", "e", "r", "e" >>, << "I", " ", "a", "m", " ", "w", "o", "r", "r", "i", "e", "d", " ", "a", "b", "o", "u", "t", " ", "m", "y", " ", "n", "e", "w", " ", "j", "o", "b", " ", "a", "t", " ", "w", "o", "r", "k" >> }

\* What the model answers a chat message with, and the texts fallbackResponse
\* picks from with Math.random() (two of its canned replies).
AiTexts == { << "s", "o", " ", "h", "a", "p", "p", "y", " ", "f", "o", "r", " ", "y", "o", "u" >> }
FallbackTexts == { << "I", "'", "m", " ", "h", "e", "r", "e", " ", "f", "o", "r", " ", "y", "o", "u" >>, << "Y", "o", "u", "'", "r", "e", " ", "a", "m", "a", "z", "i", "n", "g", "!" >> }

\* What the model call of extractTags comes back with: it throws, or the
\* reply splits into these tags.
TagThrows == [ok |-> FALSE, tags |-> << >>]
TagOutcomes == { TagThrows, [ok |-> TRUE, tags |-> << << "w", "o", "r", "k" >>, << "s", "t", "r", "e", "s", "s" >> >>] }

\* The response generateResponse can return for a message: the model's text
\* with the emotion analysed from that text, or, when a call throws, the
\* fallbackResponse, whose emotion is analysed from the user's message.
Responses(message, memoriesUsed) ==
  { [message |-> text, emotion |-> GeminiAI_analyzeEmotion(text, llm),
     memoriesUsed |-> memoriesUsed] : text \in AiTexts, llm \in LlmOutcomes }
  \cup
  { [message |-> text, emotion |-> fallbackEmotionAnalysis(message),
     memoriesUsed |-> << >>] : text \in FallbackTexts }

IdleResponse == [message |-> << >>, emotion |-> NeutralEmotion, memoriesUsed |-> << >>]

\* A request that has not arrived; its fields hold fillers.
IdleTurn ==
  [pc |-> "idle", kind |-> "chat", user |-> "u1", message |-> << >>,
   mood |-> NeutralEmotion, response |-> IdleResponse,
   userMsg |-> 0, aiMsg |-> 0, memory |-> 0]

\* A ChatMessage; a user message has no emotion and no memoryIds.
ChatMessage(id, u, content, role, emotion, memoryIds, t) ==
  [id |-> id, userId |-> u, content |-> content, role |-> role,
   emotion |-> emotion, memoryIds |-> memoryIds, timestamp |-> DateStamp(t)]

\* RedisUtils.addChatMessage: JSON.stringify, lpush, ltrim(key, 0, 99).
addChatMessage(list, message) ==
  lrange(<< [message EXCEPT !.emotion = JsonEmotion(message.emotion),
                             !.timestamp = JsonStamp(message.timestamp)] >> \o list,
         ChatListCap - 1)

\* shouldCreateMemory without the floor on the length of the message.
shouldCreateMemoryNoFloor(message, emotion) ==
  \/ emotion.intensity > 700
  \/ \E kw \in {<< "r", "e", "m", "e", "m", "b", "e", "r" >>, << "i", "m", "p", "o", "r", "t", "a", "n", "t" >>, << "s", "p", "e", "c", "i", "a", "l" >>, << "l", "o", "v", "e" >>, << "h", "a", "t", "e" >>, << "n", "e", "v", "e", "r" >>, << "a", "l", "w", "a", "y", "s" >>,
                << "d", "r", "e", "a", "m" >>, << "g", "o", "a", "l" >>, << "w", "i", "s", "h" >>, << "f", "e", "a", "r" >>, << "w", "o", "r", "r", "y" >>} : includes(toLowerCase(message), kw)
  \/ includes(message, << "?" >>)
  \/ Len(message) > 50

\* LangChainMemoryManager.shouldCreateMemory.
ShouldCreateKeywords ==
  << << "r", "e", "m", "e", "m", "b", "e", "r" >>, << "i", "m", "p", "o", "r", "t", "a", "n", "t" >>, << "s", "p", "e", "c", "i", "a", "l" >>, << "l", "o", "v", "e" >>, << "h", "a", "t", "e" >>, << "n", "e", "v", "e", "r" >>,
     << "a", "l", "w", "a", "y", "s" >>, << "d", "r", "e", "a", "m" >>, << "g", "o", "a", "l" >>, << "w", "i", "s", "h" >>, << "f", "e", "a", "r" >>, << "w", "o", "r", "r", "y" >> >>

shouldCreateMemory(message, emotion) ==
  IF Len(message) < 10 THEN FALSE
  ELSE \/ emotion.intensity > 700
       \/ CountIncluded(ShouldCreateKeywords, toLowerCase(message)) > 0
       \/ includes(message, << "?" >>)
       \/ Len(message) > 50

\* LangChainMemoryManager.determineMemoryType: the first rule that matches.
MemoryTypeRules ==
  << TagRule("gift", << << "g", "i", "f", "t" >>, << "p", "r", "e", "s", "e", "n", "t" >> >>),
     TagRule("dream", << << "d", "r", "e", "a", "m" >>, << "w", "i", "s", "h" >>, << "g", "o", "a", "l" >> >>),
     TagRule("achievement", << << "a", "c", "h", "i", "e", "v", "e", "m", "e", "n", "t" >>, << "a", "c", "c", "o", "m", "p", "l", "i", "s", "h", "e", "d" >>, << "p", "r", "o", "u", "d" >> >>),
     TagRule("concern", << << "w", "o", "r", "r", "i", "e", "d" >>, << "c", "o", "n", "c", "e", "r", "n", "e", "d" >>, << "p", "r", "o", "b", "l", "e", "m" >> >>),
     TagRule("event", << << "b", "i", "r", "t", "h", "d", "a", "y" >>, << "a", "n", "n", "i", "v", "e", "r", "s", "a", "r", "y" >>, << "e", "v", "e", "n", "t" >> >>),
     TagRule("preference", << << "l", "i", "k", "e" >>, << "d", "i", "s", "l", "i", "k", "e" >>, << "p", "r", "e", "f", "e", "r" >> >>) >>

determineMemoryType(message) ==
  LET types == MatchedTags(MemoryTypeRules, toLowerCase(message))
  IN  IF Len(types) > 0 THEN types[1] ELSE "conversation"

\* LangChainMemoryManager.calculateImportance: the statements of
\* MemoryManager.calculateImportance, with the emotion always given.
LangChain_calculateImportance(message, emotion) ==
  calculateImportance(message, emotion)

\* LangChainMemoryManager.fallbackTagExtraction.
FallbackTagRules ==
  << TagRule(<< "f", "a", "m", "i", "l", "y" >>, << << "f", "a", "m", "i", "l", "y" >>, << "m", "o", "m" >>, << "d", "a", "d" >> >>),
     TagRule(<< "w", "o", "r", "k" >>, << << "w", "o", "r", "k" >>, << "j", "o", "b" >>, << "c", "a", "r", "e", "e", "r" >> >>),
     TagRule(<< "r", "e", "l", "a", "t", "i", "o", "n", "s", "h", "i", "p", "s" >>, << << "l", "o", "v", "e" >>, << "r", "e", "l", "a", "t", "i", "o", "n", "s", "h", "i", "p" >>, << "r", "o", "m", "a", "n", "t", "i", "c" >> >>),
     TagRule(<< "h", "e", "a", "l", "t", "h" >>, << << "h", "e", "a", "l", "t", "h" >>, << "s", "i", "c", "k" >>, << "d", "o", "c", "t", "o", "r" >> >>),
     TagRule(<< "f", "o", "o", "d" >>, << << "f", "o", "o", "d" >>, << "e", "a", "t" >>, << "r", "e", "s", "t", "a", "u", "r", "a", "n", "t" >> >>),
     TagRule(<< "t", "r", "a", "v", "e", "l" >>, << << "t", "r", "a", "v", "e", "l" >>, << "t", "r", "i", "p" >>, << "v", "a", "c", "a", "t", "i", "o", "n" >> >>),
     TagRule(<< "h", "o", "b", "b", "i", "e", "s" >>, << << "h", "o", "b", "b", "y" >>, << "i", "n", "t", "e", "r", "e", "s", "t" >>, << "f", "u", "n" >> >>),
     TagRule(<< "d", "r", "e", "a", "m", "s" >>, << << "d", "r", "e", "a", "m" >>, << "g", "o", "a", "l" >>, << "f", "u", "t", "u", "r", "e" >> >>) >>

fallbackTagExtraction(message) ==
  LET tags == MatchedTags(FallbackTagRules, toLowerCase(message))
  IN  IF Len(tags) > 0 THEN tags ELSE << << "g", "e", "n", "e", "r", "a", "l" >> >>

\* LangChainMemoryManager.extractTags(message) when the model call comes
\* back with reply.
LangChain_extractTags(message, reply) ==
  IF Len(message) < 30 THEN fallbackTagExtraction(message)
  ELSE IF ~reply.ok THEN fallbackTagExtraction(message)
  ELSE slice(reply.tags, 5)

\* The Memory createMemoryIfImportant builds, with the id randomUUID() returned.
ImportantMemory(id, u, message, emotion, reply, t) ==
  [id |-> id, userId |-> u, content |-> message,
   type |-> determineMemoryType(message),
   importance |-> LangChain_calculateImportance(message, emotion),
   emotion |-> emotion, tags |-> LangChain_extractTags(message, reply),
   createdAt |-> DateStamp(t), lastAccessedAt |-> DateStamp(t)]

\* The requests before t have arrived: requests arrive in their order.
Arrived(t) == IF t = 1 THEN TRUE ELSE turns[t - 1].pc # "idle"

\* POST /api/chat, lines 10-30: the request arrives and the user's message
\* is pushed to the chat list.
ChatStart(t, u, message) ==
  /\ turns[t].pc = "idle"
  /\ Arrived(t)
  /\ chatStore' = [chatStore EXCEPT ![u] =
                     addChatMessage(@, ChatMessage(nextId, u, message, "user",
                                                   NoEmotion, << >>, now))]
  /\ turns' = [turns EXCEPT ![t] = [IdleTurn EXCEPT !.pc = "context", !.user = u,
                                                    !.message = message,
                                                    !.userMsg = nextId]]
  /\ nextId' = nextId + 1
  /\ UNCHANGED lastOp
  /\ UNCHANGED << now, auxVars, moodStore, userStore, calls, memStore, created, ops,
                  searchVars, moodSeen >>

\* Lines 38-41: getConversationContext reads the chat list and the memory
\* list and analyses the message (the store answers both reads).
ChatContext(t, llm) ==
  /\ turns[t].pc = "context" /\ turns[t].kind = "chat"
  /\ llm \in ModelCalls(turns[t].message)
  /\ LET context == getConversationContext(memStore[turns[t].user], turns[t].message,
                                           now, FALSE, FALSE, llm)
         ids == [i \in 1..Len(context.relevantMemories) |->
                   context.relevantMemories[i].id]
     IN  turns' = [turns EXCEPT ![t].pc = "respond",
                                ![t].mood = context.currentMood,
                                ![t].response = [IdleResponse EXCEPT !.memoriesUsed = ids]]
  /\ UNCHANGED lastOp
  /\ UNCHANGED << now, auxVars, moodStore, userStore, calls, memVars, searchVars,
                  chatStore, moodSeen >>

\* Lines 52-68: generateResponse answers, and the assistant's message is
\* pushed to the chat list.
ChatRespond(t, response) ==
  /\ chatStore' = [chatStore EXCEPT ![turns[t].user] =
                     addChatMessage(@, ChatMessage(nextId, turns[t].user,
                                                   response.message, "assistant",
                                                   response.emotion,
                                                   response.memoriesUsed, now))]
  /\ turns' = [turns EXCEPT ![t].pc = "save", ![t].response = response,
                            ![t].aiMsg = nextId]
  /\ nextId' = nextId + 1
  /\ UNCHANGED lastOp
  /\ UNCHANGED << now, auxVars, moodStore, userStore, calls, memStore, created, ops,
                  searchVars, moodSeen >>

\* The step of a request that waits for generateResponse.
ChatRespondStep(t) ==
  /\ turns[t].pc = "respond"
  /\ \E response \in Responses(turns[t].message, turns[t].response.memoriesUsed) :
        ChatRespond(t, response)

\* Line 71: saveConversationContext. When saving to the summary memory
\* throws (summaryThrows) the catch skips createMemoryIfImportant;
\* otherwise a memory is pushed if the message is important.
ChatSave(t, summaryThrows, reply) ==
  /\ turns[t].pc = "save"
  /\ LET u == turns[t].user
         creates == ~summaryThrows /\ shouldCreateMemory(turns[t].message, turns[t].mood)
     IN  /\ memStore' = IF creates
                        THEN [memStore EXCEPT ![u] =
                                addMemory(@, ImportantMemory(nextId, u, turns[t].message,
                                                             turns[t].mood, reply, now))]
                        ELSE memStore
         /\ nextId' = IF creates THEN nextId + 1 ELSE nextId
         /\ turns' = [turns EXCEPT ![t].pc = "setUserData",
                                   ![t].memory = IF creates THEN nextId ELSE 0]
         /\ UNCHANGED lastOp
  /\ UNCHANGED << now, auxVars, moodStore, userStore, calls, created, ops, searchVars,
                  chatStore, moodSeen >>

\* Lines 73-82: setUserData(userId, {currentMood: JSON.stringify(response.emotion)}),
\* and the response, with userEmotion the mood of the context.
ChatSetMood(t) ==
  /\ turns[t].pc = "setUserData" /\ turns[t].kind = "chat"
  /\ userStore' = SetCurrentMood(userStore, turns[t].user, turns[t].response.emotion)
  /\ turns' = [turns EXCEPT ![t].pc = "done"]
  /\ lastOp' = [op |-> "chat", user |-> turns[t].user, call |-> t,
                result |-> turns[t].mood]
  /\ UNCHANGED << now, auxVars, moodStore, calls, memVars, searchVars, chatStore, moodSeen >>

\* POST /api/user: getUserData; a user with stored fields is returned as is.
InitUserRead(t, u) ==
  /\ turns[t].pc = "idle"
  /\ Arrived(t)
  /\ turns' = [turns EXCEPT ![t] =
                 [IdleTurn EXCEPT !.kind = "init", !.user = u,
                                  !.pc = IF userStore[u].keys # {} THEN "done"
                                         ELSE "initUser"]]
  /\ lastOp' = IF userStore[u].keys # {}
                THEN [op |-> "user", user |-> u, call |-> t,
                      result |-> CurrentMoodOf(userStore, u)]
                ELSE lastOp
  /\ UNCHANGED << now, auxVars, moodStore, userStore, calls, memVars, searchVars,
                  chatStore, moodSeen >>

\* POST /api/user for a new user: setUserData of data and a neutral currentMood.
InitUserWrite(t) ==
  /\ turns[t].pc = "initUser"
  /\ userStore' = [userStore EXCEPT ![turns[t].user] =
                     [@ EXCEPT !.keys = @ \cup {"data", "currentMood"},
                               !.currentMood = JsonEmotion(NeutralEmotion)]]
  /\ turns' = [turns EXCEPT ![t].pc = "done"]
  /\ lastOp' = [op |-> "user", user |-> turns[t].user, call |-> t,
                result |-> NeutralEmotion]
  /\ UNCHANGED << now, auxVars, moodStore, calls, memVars, searchVars, chatStore, moodSeen >>

\* EmotionTracker.trackEmotion run from its first to its last command with
\* no other request's command in between.
RecordEmotion(u, e, trigger) ==
  /\ LET entry == [emotion |-> e.primary, intensity |-> e.intensity,
                   timestamp |-> DateStamp(now), context |-> e.context]
         hash == moodStore[u][Today(now)]
         mt == LoadTracking(hash, e, now)
         throws == ParseThrows(hash) \/ GetTimeThrows(Append(mt.moodHistory, entry))
     IN  IF throws
         THEN UNCHANGED << moodStore, userStore >>
         ELSE /\ moodStore' = [moodStore EXCEPT ![u][Today(now)] =
                                 TrackingHash(UpdateTracking(mt, entry, trigger, now))]
              /\ userStore' = SetCurrentMood(userStore, u, e)
  /\ moodSeen' = ForgetMood(u)
  /\ lastOp' = [op |-> "trackEmotion", user |-> u, call |-> 0, result |-> NeutralEmotion]
  /\ UNCHANGED << now, auxVars, calls, memVars, searchVars, chatStore, turns >>

\* ------------------------------------------------------------------ SpecMood

InitMood ==
  /\ now = 0
  /\ moodStore = [u \in Users |-> [d \in Days |-> EmptyMoodHash]]
  /\ userStore = [u \in Users |-> EmptyUserHash]
  /\ calls = [c \in Calls |-> IdleCall]
  /\ lastOp = [op |-> "init", user |-> "u1", call |-> 0, result |-> NeutralEmotion]
  /\ memStore = [u \in Users |-> << >>]
  /\ nextId = 1
  /\ created = << >>
  /\ ops = 0
  /\ req = EmptyReq
  /\ result = << >>
  /\ chatStore = [u \in Users |-> << >>]
  /\ turns = [t \in Turns |-> IdleTurn]
  /\ moodSeen = [u \in Users |-> NotSeen]
  /\ giftStore = [u \in Users |-> {}]
  /\ ai = IdleAi

NextMood ==
  \/ \E c \in Calls, u \in Users, e \in EmotionInputs, trigger \in TriggerInputs :
        TrackRead(c, u, e, e.context, trigger)
  \/ \E c \in Calls : TrackWrite(c)
  \/ \E c \in Calls : TrackSetMood(c)
  \/ \E u \in Users : GetCurrentMood(u)
  \/ Tick

SpecMood == InitMood /\ [][NextMood]_vars

\* ------------------------------------------------------------------ claims on SpecMood

\* The trackEmotion calls made for user u on day d, and their entries in
\* call order (a call with a smaller number started earlier).
CallsOf(u, d) ==
  { c \in Calls : calls[c].pc # "idle" /\ calls[c].user = u /\ calls[c].today = d }

RECURSIVE EntriesOf(_)
EntriesOf(cs) ==
  IF cs = {} THEN << >>
  ELSE LET last == CHOOSE c \in cs : \A o \in cs : o <= c
       IN  Append(EntriesOf(cs \ {last}), calls[last].entry)

C2_NoLostUpdate ==
  \A c1, c2 \in Calls :
    ( /\ c1 < c2
      /\ calls[c1].pc = "done" /\ calls[c2].pc = "done"
      /\ calls[c1].user = calls[c2].user /\ calls[c1].today = calls[c2].today
      /\ calls[c1].concurrent /\ calls[c2].concurrent )
    => LET h == moodStore[calls[c1].user][calls[c1].today].moodHistory
       IN  \E i, j \in 1..Len(h) :
             /\ i # j
             /\ h[i] = JsonEntry(calls[c1].entry)
             /\ h[j] = JsonEntry(calls[c2].entry)

\* C4: the current mood is the aggregated mood. Right after a trackEmotion
\* call has completed, getCurrentMood returns the overallMood that call
\* recomputed from the day's moodHistory.
C4_CurrentMoodIsOverallMood ==
  \A c \in Calls :
    (lastOp.op = "trackEmotion.done" /\ lastOp.call = c)
    => CurrentMoodOf(userStore, calls[c].user)
         = JsonEmotion(calls[c].tracking.overallMood)

\* ------------------------------------------------------------------ SpecMem

\* Memories are created and touched, starting from an empty store.
InitMem ==
  /\ now = 0
  /\ moodStore = [u \in Users |-> [d \in Days |-> EmptyMoodHash]]
  /\ userStore = [u \in Users |-> EmptyUserHash]
  /\ calls = [c \in Calls |-> IdleCall]
  /\ lastOp = [op |-> "init", user |-> "u1", call |-> 0, result |-> NeutralEmotion]
  /\ memStore = [u \in Users |-> << >>]
  /\ nextId = 1
  /\ created = << >>
  /\ ops = 0
  /\ req = EmptyReq
  /\ result = << >>
  /\ chatStore = [u \in Users |-> << >>]
  /\ turns = [t \in Turns |-> IdleTurn]
  /\ moodSeen = [u \in Users |-> NotSeen]
  /\ giftStore = [u \in Users |-> {}]
  /\ ai = IdleAi

\* Tick for the specifications that use no trackEmotion call slots.
TickMem ==
  /\ now + 12 <= MaxClock
  /\ now' = now + 12
  /\ lastOp' = [op |-> "tick", user |-> "u1", call |-> 0, result |-> NeutralEmotion]
  /\ UNCHANGED << moodStore, userStore, calls, memVars, searchVars, chatVars, auxVars >>

NextMem ==
  \/ \E u \in Users, a \in CreateInputs : CreateMemory(u, a)
  \/ \E u \in Users, id \in 1..MaxOps : UpdateMemoryAccess(u, id)
  \/ \E u \in Users : GetRecentMemories(u, MaxLimit)
  \/ TickMem

SpecMem == InitMem /\ [][NextMem]_vars

\* ------------------------------------------------------------------ SpecSearch

\* Stores to retrieve from: each is the list of createMemory calls that
\* built it, [user, input, at]: MemoryInputs[input] created for user at hour at.
Seed(u, input, at) == [user |-> u, input |-> input, at |-> at]

SeedLarge ==
  << Seed("u1", 1, 0), Seed("u1", 2, 0), Seed("u2", 2, 0), Seed("u1", 3, 0),
     Seed("u1", 4, 0), Seed("u1", 5, 12), Seed("u1", 1, 12), Seed("u1", 2, 12),
     Seed("u1", 3, 12) >>

SeedSmall == << Seed("u1", 4, 0), Seed("u1", 1, 12), Seed("u1", 3, 12) >>

Seeds == { SeedLarge, SeedSmall }

\* The list of user u after the createMemory calls of a seed.
RECURSIVE Replay(_, _)
Replay(seed, u) ==
  IF seed = << >> THEN << >>
  ELSE LET n == Len(seed)
           c == seed[n]
           a == MemoryInputs[c.input]
           rest == Replay(SubSeq(seed, 1, n - 1), u)
       IN  IF c.user = u
           THEN addMemory(rest, NewMemory(n, u, a.content, a.type, a.emotion,
                                          a.tags, a.importance, c.at))
           ELSE rest

InitSearch ==
  /\ now = 12
  /\ moodStore = [u \in Users |-> [d \in Days |-> EmptyMoodHash]]
  /\ userStore = [u \in Users |-> EmptyUserHash]
  /\ calls = [c \in Calls |-> IdleCall]
  /\ lastOp = [op |-> "init", user |-> "u1", call |-> 0, result |-> NeutralEmotion]
  /\ \E seed \in Seeds :
       /\ memStore = [u \in Users |-> Replay(seed, u)]
       /\ nextId = Len(seed) + 1
       /\ created = [i \in 1..Len(seed) |->
                       LET a == MemoryInputs[seed[i].input]
                       IN  [user |-> seed[i].user, content |-> a.content,
                            type |-> a.type, emotion |-> a.emotion, tags |-> a.tags,
                            importance |-> a.importance, given |-> a.given]]
  /\ ops = MaxOps - 1
  /\ req = EmptyReq
  /\ result = << >>
  /\ chatStore = [u \in Users |-> << >>]
  /\ turns = [t \in Turns |-> IdleTurn]
  /\ moodSeen = [u \in Users |-> NotSeen]
  /\ giftStore = [u \in Users |-> {}]
  /\ ai = IdleAi

NextSearch ==
  \/ \E u \in Users, query \in Queries, limit \in Limits, types \in TypeFilters,
        fail \in BOOLEAN : GetRelevantMemories(u, query, limit, types, fail)
  \/ \E u \in Users, type \in {"event", "gift"} : GetMemoriesByType(u, type, MaxLimit)
  \/ \E u \in Users : GetRecentMemories(u, MaxLimit)
  \/ \E u \in Users : GetImportantMemories(u, MaxLimit)
  \/ \E u \in Users, query \in Queries : SearchMemories(u, query, MaxLimit)
  \/ \E u \in Users, userMessage \in ContextMessages, historyFail \in BOOLEAN,
        memFail \in BOOLEAN, llm \in LlmOutcomes :
        GetConversationContext(u, userMessage, historyFail, memFail, llm)
  \/ \E u \in Users, id \in 1..MaxOps : UpdateMemoryAccess(u, id)

SpecSearch == InitSearch /\ [][NextSearch]_vars

\* ------------------------------------------------------------------ SpecChat

\* Requests of any users, handled concurrently: the steps of different
\* requests interleave.
InitChat == InitMem

NextChat ==
  \/ \E t \in Turns, u \in Users, message \in ChatInputs : ChatStart(t, u, message)
  \/ \E t \in Turns, llm \in LlmOutcomes : ChatContext(t, llm)
  \/ \E t \in Turns : ChatRespondStep(t)
  \/ \E t \in Turns, summaryThrows \in BOOLEAN, reply \in TagOutcomes :
        ChatSave(t, summaryThrows, reply)
  \/ \E t \in Turns : ChatSetMood(t)
  \/ \E t \in Turns, u \in Users : InitUserRead(t, u)
  \/ \E t \in Turns : InitUserWrite(t)

SpecChat == InitChat /\ [][NextChat]_vars

\* ------------------------------------------------------------------ SpecSession

\* The requests of one user's client, sent one at a time (a request is sent
\* when the one before it has been answered), with trackEmotion and
\* getCurrentMood calls for that user between the steps.
SessionUsers == {"u1"}

SessionEmotions == { e \in EmotionInputs : e.primary = "sadness" }

Answered(t) == IF t = 1 THEN TRUE ELSE turns[t - 1].pc = "done"

SessionChat(t, u, message) == Answered(t) /\ ChatStart(t, u, message)

SessionInitUser(t, u) == Answered(t) /\ InitUserRead(t, u)

InitSession == InitMem

NextSession ==
  \/ \E t \in Turns, u \in SessionUsers, message \in ChatInputs : SessionChat(t, u, message)
  \/ \E t \in Turns, llm \in LlmOutcomes : ChatContext(t, llm)
  \/ \E t \in Turns : ChatRespondStep(t)
  \/ \E t \in Turns, summaryThrows \in BOOLEAN, reply \in TagOutcomes :
        ChatSave(t, summaryThrows, reply)
  \/ \E t \in Turns : ChatSetMood(t)
  \/ \E t \in Turns, u \in SessionUsers : SessionInitUser(t, u)
  \/ \E t \in Turns : InitUserWrite(t)
  \/ \E u \in SessionUsers, e \in SessionEmotions : RecordEmotion(u, e, Undefined)
  \/ \E u \in SessionUsers : GetCurrentMood(u)

SpecSession == InitSession /\ [][NextSession]_vars

\* ------------------------------------------------------------------ claims on SpecChat

\* The place of the message with an id in a chat list (1 is the newest).
PlaceOf(list, id) == CHOOSE i \in 1..Len(list) : list[i].id = id

\* C3: strict per-user ordering of chat turns. For two chat turns of the
\* same user, turn t1 submitted before turn t2: once t2 has written to the
\* store (its first step pushes its user message), every write of t1 is
\* committed, that is t1 is done; and when both are done the chat list holds
\* t1's two messages before t2's and currentMood is the one t2 wrote.
C3_TurnsCommitInOrder ==
  \A t1, t2 \in Turns :
    ( /\ t1 < t2
      /\ turns[t1].kind = "chat" /\ turns[t2].kind = "chat"
      /\ turns[t1].pc # "idle" /\ turns[t2].pc # "idle"
      /\ turns[t1].user = turns[t2].user )
    => /\ turns[t1].pc = "done"
       /\ turns[t2].pc = "done" =>
            LET u == turns[t2].user
                list == chatStore[u]
            IN  /\ PlaceOf(list, turns[t2].aiMsg) < PlaceOf(list, turns[t2].userMsg)
                /\ PlaceOf(list, turns[t2].userMsg) < PlaceOf(list, turns[t1].aiMsg)
                /\ PlaceOf(list, turns[t1].aiMsg) < PlaceOf(list, turns[t1].userMsg)
                /\ CurrentMoodOf(userStore, u) = JsonEmotion(turns[t2].response.emotion)

\* ------------------------------------------------------------------ claims on SpecSession

\* C5: idempotence of currentMood. A getCurrentMood for a user returns the
\* Emotion the getCurrentMood before it returned for that user, when no
\* trackEmotion for that user ran between the two, whatever chat turns and
\* user initialisations ran between them.
C5_CurrentMoodIdempotent ==
  [][ \A u \in Users :
        (moodSeen[u].seen /\ moodSeen'[u].seen)
        => moodSeen'[u].mood = moodSeen[u].mood ]_vars

\* ------------------------------------------------------------------ claims on SpecSearch

\* Number of places of a sequence that hold x.
Count(seq, x) == Cardinality({ i \in 1..Len(seq) : seq[i] = x })

\* The scores s of a sequence are in descending order.
Descending(s) ==
  \A i, j \in 1..Len(s) : i < j => s[i] >= s[j]

\* No element of candidates (with scores sc) left out of chosen (with scores
\* s) has a higher score than an element of chosen.
NoneBetterOmitted(chosen, s, candidates, sc) ==
  \A k \in 1..Len(candidates) :
    Count(chosen, candidates[k]) < Count(candidates, candidates[k])
    => \A i \in 1..Len(chosen) : sc[k] <= s[i]

AmbientTopFive ==
  LET window == getMemories(memStore[lastOp.user], AmbientWindow)
      s == << >> \o [i \in 1..Len(result) |-> AmbientScore(result[i], req.query, now)]
      sc == << >> \o [k \in 1..Len(window) |-> AmbientScore(window[k], req.query, now)]
  IN  /\ Len(result) = Min(AmbientTop, Len(window))
      /\ \A i \in 1..Len(result) : Count(window, result[i]) > 0
      /\ Descending(s)
      /\ NoneBetterOmitted(result, s, window, sc)

\* C7 (as stated): the ambient retrieval returns at most 5 memories, the 5
\* highest under the ambient score in descending order; on any store
\* failure it returns an empty list with mood {neutral, 0.5}.
C7_AmbientFailureIsNeutral ==
  lastOp.op = "getConversationContext" =>
    /\ Len(result) <= AmbientTop
    /\ (~req.historyFail /\ ~req.memFail) => AmbientTopFive
    /\ (req.historyFail \/ req.memFail)
         => (result = << >> /\ lastOp.result = NeutralEmotion)

\* C7 (amended): the ambient retrieval returns at most 5 memories, the 5
\* highest under the ambient score in descending order. When the read of
\* the chat history fails it returns an empty list with mood {neutral, 0.5};
\* when only the read of the memory list fails it returns an empty list with
\* the mood analysed from the user's message.
C7_AmbientTopFive ==
  lastOp.op = "getConversationContext" =>
    /\ Len(result) <= AmbientTop
    /\ (~req.historyFail /\ ~req.memFail) => AmbientTopFive
    /\ req.historyFail => (result = << >> /\ lastOp.result = NeutralEmotion)
    /\ (~req.historyFail /\ req.memFail)
         => ( /\ result = << >>
              /\ lastOp.result = analyzeEmotion(req.query, req.llm) )

\* C7 happens: the read of the memory list fails for a user with stored
\* memories, and the mood returned is not neutral.
C7_Witness ==
  /\ lastOp.op = "getConversationContext"
  /\ ~req.historyFail /\ req.memFail
  /\ Len(memStore[lastOp.user]) > AmbientTop
  /\ result = << >>
  /\ lastOp.result.primary # "neutral"

RetrievalOps ==
  { "getRelevantMemories", "getMemoriesByType", "getRecentMemories",
    "getImportantMemories", "searchMemories", "getConversationContext" }

\* C8: pure retrieval has no effect on stored state. A step of
\* getRelevantMemories, getMemoriesByType, getRecentMemories,
\* getImportantMemories, searchMemories or the ambient retrieval leaves the
\* memory list of every user as it was: every record (lastAccessedAt
\* included), the order and the length.
C8_RetrievalLeavesStore ==
  [][ lastOp'.op \in RetrievalOps => memStore' = memStore ]_vars

\* C8 happens: a retrieval has returned stored memories.
C8_Witness ==
  /\ lastOp.op \in RetrievalOps
  /\ Len(result) >= 2
  /\ \A i \in 1..Len(result) :
       Count(getMemories(memStore[lastOp.user], MemoryListCap), result[i]) > 0

\* ------------------------------------------------------------------ claims on SpecMem

\* C9: the access-touch changes only lastAccessedAt. A step of
\* updateMemoryAccess(id) for user u, with id in u's list, leaves the list
\* with the same ids, each exactly once, none added and none evicted, and
\* every record as it was but for lastAccessedAt of memory id.
C9_TouchChangesOnlyLastAccessedAt ==
  [][ lastOp'.op = "updateMemoryAccess" =>
        LET u == lastOp'.user
            id == lastOp'.call
            before == memStore[u]
            after == memStore'[u]
        IN  (\E i \in 1..Len(before) : before[i].id = id)
            => /\ Len(after) = Len(before)
               /\ \A i \in 1..Len(before) :
                    /\ Cardinality({ j \in 1..Len(after) : after[j].id = before[i].id }) = 1
                    /\ \A j \in 1..Len(after) :
                         after[j].id = before[i].id
                         => IF before[i].id = id
                            THEN [after[j] EXCEPT !.lastAccessedAt = before[i].lastAccessedAt]
                                   = before[i]
                            ELSE after[j] = before[i] ]_vars

\* C10: round trip of createMemory. A memory read back from the store by
\* its id has the content and type it was created with, the tags it was
\* created with when a tag list was passed, and the importance it was
\* created with when an importance was passed (0 included), whatever
\* touches and retrievals ran since.
C10_CreateMemoryRoundTrip ==
  \A id \in 1..Len(created) :
    LET a == created[id]
        memories == getMemories(memStore[a.user], MemoryListCap)
    IN  \A i \in 1..Len(memories) :
          memories[i].id = id
          => /\ memories[i].content = a.content
             /\ memories[i].type = a.type
             /\ "tags" \in a.given => memories[i].tags = a.tags
             /\ "importance" \in a.given => memories[i].importance = a.importance

\* ------------------------------------------------------------------ SpecCap

\* Memory writes on stores that earlier createMemory calls have filled, for
\* one user up to the cap of the list.
CapInputs == { MemoryInputs[2], MemoryInputs[4] }

InitCap ==
  /\ now = 12
  /\ moodStore = [u \in Users |-> [d \in Days |-> EmptyMoodHash]]
  /\ userStore = [u \in Users |-> EmptyUserHash]
  /\ calls = [c \in Calls |-> IdleCall]
  /\ lastOp = [op |-> "init", user |-> "u1", call |-> 0, result |-> NeutralEmotion]
  /\ \E seed \in Seeds :
       /\ memStore = [u \in Users |-> Replay(seed, u)]
       /\ nextId = Len(seed) + 1
       /\ created = [i \in 1..Len(seed) |->
                       LET a == MemoryInputs[seed[i].input]
                       IN  [user |-> seed[i].user, content |-> a.content,
                            type |-> a.type, emotion |-> a.emotion, tags |-> a.tags,
                            importance |-> a.importance, given |-> a.given]]
  /\ ops = 0
  /\ req = EmptyReq
  /\ result = << >>
  /\ chatStore = [u \in Users |-> << >>]
  /\ turns = [t \in Turns |-> IdleTurn]
  /\ moodSeen = [u \in Users |-> NotSeen]
  /\ giftStore = [u \in Users |-> {}]
  /\ ai = IdleAi

NextCap ==
  \/ \E u \in Users, a \in CapInputs : CreateMemory(u, a)
  \/ \E u \in Users, id \in 1..MaxLimit : UpdateMemoryAccess(u, id)
  \/ TickMem

SpecCap == InitCap /\ [][NextCap]_vars

\* ------------------------------------------------------------------ claims on SpecCap

\* C11: the per-user memory list is capped. Every createMemory or
\* updateMemoryAccess step leaves each list with at most MemoryListCap
\* records; a list that changed has the inserted record first, followed by
\* the records it held before in their order, those beyond the cap (the
\* oldest-inserted) dropped.
C11_ListCapped ==
  [][ \A u \in Users :
        LET before == memStore[u]
            after == memStore'[u]
        IN  /\ Len(after) <= MemoryListCap
            /\ after # before
                 => /\ lastOp'.op \in {"createMemory", "updateMemoryAccess"}
                    /\ lastOp'.user = u
                    /\ after[1].id = lastOp'.call
                    /\ after = SubSeq(<< after[1] >> \o before, 1,
                                      Min(Len(before) + 1, MemoryListCap)) ]_vars

\* C11 happens: a createMemory on a full list has dropped the record
\* inserted first and kept the list at the cap.
C11_Witness ==
  /\ lastOp.op = "createMemory"
  /\ Len(created) > MemoryListCap
  /\ created[1].user = lastOp.user
  /\ Len(memStore[lastOp.user]) = MemoryListCap
  /\ memStore[lastOp.user][1].id = lastOp.call
  /\ \A i \in 1..Len(memStore[lastOp.user]) : memStore[lastOp.user][i].id # 1

\* ------------------------------------------------------------------ SpecClassify

\* Texts to classify: up to MaxWords words of the vocabulary, joined by
\* spaces. The vocabulary has markers of every rule in both cases, inside
\* longer words and as emoji, and words without a marker.
MaxWords == 2

Vocabulary ==
  { << "L", "O", "V", "E" >>, << "u2764", "uFE0F" >>, << "h", "a", "p", "p", "y" >>, << "J", "o", "y", "f", "u", "l" >>, << "s", "a", "d" >>, << "uD83D", "uDE22" >>, << "a", "n", "g", "r", "y" >>, << "m", "a", "d", "e" >>, << "w", "o", "r", "r", "i", "e", "d" >>,
    << "e", "x", "c", "i", "t", "e", "d" >>, << "h", "e", "l", "l", "o" >>, << "n", "o", "t", "h", "i", "n", "g", " ", "m", "u", "c", "h", " ", "h", "a", "p", "p", "e", "n", "e", "d", " ", "a", "t", " ", "a", "l", "l" >> }

RECURSIVE Join(_)
Join(words) ==
  IF Len(words) = 0 THEN << >>
  ELSE IF Len(words) = 1 THEN words[1]
  ELSE words[1] \o << " " >> \o Join(Tail(words))

WordLists == UNION { [1..n -> Vocabulary] : n \in 0..MaxWords }

Texts == { Join(w) : w \in WordLists }

\* The text of a behaviour has not been classified yet.
Unclassified == lastOp.op = "init"

\* fallbackEmotionAnalysis(message) of either class.
FallbackEmotionAnalysis(message) ==
  /\ Unclassified
  /\ Retrieved("fallbackEmotionAnalysis", "u1", [EmptyReq EXCEPT !.query = message],
               << >>, fallbackEmotionAnalysis(message))
  /\ UNCHANGED memVars

\* What the model call of a classifier can come back with: the outcomes of
\* LlmOutcomes, and a reply whose label is none of the 16 and whose
\* intensity is above 1.
ClassifyOutcomes ==
  LlmOutcomes \cup { [ok |-> TRUE, primary |-> "happy", intensity |-> 1500,
                      secondary |-> Undefined, context |-> Undefined] }

\* LangChainMemoryManager.analyzeEmotion(message), the model call coming
\* back with llm.
AnalyzeEmotion(message, llm) ==
  /\ Unclassified
  /\ llm \in (IF Len(message) < 20 THEN {LlmThrows} ELSE ClassifyOutcomes)
  /\ Retrieved("analyzeEmotion", "u1",
               [EmptyReq EXCEPT !.query = message, !.llm = llm],
               << >>, analyzeEmotion(message, llm))
  /\ UNCHANGED memVars

\* GeminiAI.analyzeEmotion(message), the model call coming back with llm.
GeminiAnalyzeEmotion(message, llm) ==
  /\ Unclassified
  /\ Retrieved("GeminiAI.analyzeEmotion", "u1",
               [EmptyReq EXCEPT !.query = message, !.llm = llm],
               << >>, GeminiAI_analyzeEmotion(message, llm))
  /\ UNCHANGED memVars

\* A behaviour classifies one text, req.query.
InitClassify ==
  /\ now = 0
  /\ moodStore = [u \in Users |-> [d \in Days |-> EmptyMoodHash]]
  /\ userStore = [u \in Users |-> EmptyUserHash]
  /\ calls = [c \in Calls |-> IdleCall]
  /\ lastOp = [op |-> "init", user |-> "u1", call |-> 0, result |-> NeutralEmotion]
  /\ memStore = [u \in Users |-> << >>]
  /\ nextId = 1
  /\ created = << >>
  /\ ops = 0
  /\ \E message \in Texts : req = [EmptyReq EXCEPT !.query = message]
  /\ result = << >>
  /\ chatStore = [u \in Users |-> << >>]
  /\ turns = [t \in Turns |-> IdleTurn]
  /\ moodSeen = [u \in Users |-> NotSeen]
  /\ giftStore = [u \in Users |-> {}]
  /\ ai = IdleAi

NextClassify ==
  \/ FallbackEmotionAnalysis(req.query)
  \/ \E llm \in ClassifyOutcomes : AnalyzeEmotion(req.query, llm)
  \/ \E llm \in ClassifyOutcomes : GeminiAnalyzeEmotion(req.query, llm)

SpecClassify == InitClassify /\ [][NextClassify]_vars

\* ------------------------------------------------------------------ claims on SpecClassify

\* The text, lower-cased, includes one of the markers.
HasMarker(text, markers) == \E k \in markers : includes(toLowerCase(text), k)

\* C13: the keyword fallback classifier is total and rule-ordered. For every
\* text it returns the emotion of the first rule with a marker in the text
\* (case-insensitive substring match) in the order love/0.8, joy/0.7,
\* sadness/0.6, anger/0.7, anxiety/0.6, excitement/0.8, and neutral/0.5
\* when no rule matches; the label is one of the 16 and the intensity is
\* within [0, 1].
C13_FallbackRuleOrdered ==
  lastOp.op = "fallbackEmotionAnalysis" =>
    LET text == req.query
        e == lastOp.result
        expected ==
          IF HasMarker(text, { << "l", "o", "v", "e" >>, << "u2764", "uFE0F" >>, << "uD83D", "uDC95" >> }) THEN << "love", 800 >>
          ELSE IF HasMarker(text, { << "h", "a", "p", "p", "y" >>, << "uD83D", "uDE0A" >>, << "j", "o", "y" >> }) THEN << "joy", 700 >>
          ELSE IF HasMarker(text, { << "s", "a", "d" >>, << "uD83D", "uDE22" >>, << "c", "r", "y" >> }) THEN << "sadness", 600 >>
          ELSE IF HasMarker(text, { << "a", "n", "g", "r", "y" >>, << "uD83D", "uDE20" >>, << "m", "a", "d" >> }) THEN << "anger", 700 >>
          ELSE IF HasMarker(text, { << "w", "o", "r", "r", "i", "e", "d" >>, << "uD83D", "uDE30" >>, << "a", "n", "x", "i", "o", "u", "s" >> }) THEN << "anxiety", 600 >>
          ELSE IF HasMarker(text, { << "e", "x", "c", "i", "t", "e", "d" >>, << "uD83E", "uDD29" >>, << "t", "h", "r", "i", "l", "l", "e", "d" >> }) THEN << "excitement", 800 >>
          ELSE << "neutral", 500 >>
    IN  /\ << e.primary, e.intensity >> = expected
        /\ e.primary \in EmotionTypes
        /\ e.intensity \in 0..1000

\* C13 happens: a text with markers of two rules, the earlier rule's marker
\* in upper case and after the later rule's, gets the earlier rule's emotion.
C13_Witness ==
  /\ lastOp.op = "fallbackEmotionAnalysis"
  /\ req.query = << "e", "x", "c", "i", "t", "e", "d", " ", "L", "O", "V", "E" >>
  /\ lastOp.result.primary = "love"

\* C14: every Emotion returned by GeminiAI.analyzeEmotion and
\* LangChainMemoryManager.analyzeEmotion has its intensity within [0, 1]
\* and one of the 16 labels as primary, and when the output of the service
\* is unparseable (the call or the parse throws) or lacks the fields the
\* Emotion returned is {neutral, 0.5}.
C14_ClassifyDefaultsToNeutral ==
  lastOp.op \in {"analyzeEmotion", "GeminiAI.analyzeEmotion"} =>
    LET e == lastOp.result
        llm == req.llm
    IN  /\ e.intensity \in 0..1000
        /\ e.primary \in EmotionTypes
        /\ (~llm.ok \/ (llm.primary = "" /\ llm.intensity = 0))
             => (e.primary = "neutral" /\ e.intensity = 500)

\* ------------------------------------------------------------------ more claims on SpecSession

\* C15: a failure of the external service is recovered by a deterministic
\* fallback. Two chat turns with the same message whose generateResponse
\* both fell back (the response is a canned reply of fallbackResponse) got
\* the same response.
C15_FallbackDeterministic ==
  \A t1, t2 \in Turns :
    ( /\ turns[t1].kind = "chat" /\ turns[t2].kind = "chat"
      /\ turns[t1].pc \in {"save", "setUserData", "done"}
      /\ turns[t2].pc \in {"save", "setUserData", "done"}
      /\ turns[t1].message = turns[t2].message
      /\ turns[t1].response.message \in FallbackTexts
      /\ turns[t2].response.message \in FallbackTexts )
    => turns[t1].response = turns[t2].response

\* ------------------------------------------------------------------ SpecRate: the rate limiter

\* The tail of checkRateLimit and the call of model.generateContent that
\* follows it with no await between: lastRequestTime becomes the `now`
\* read on entry, requestCount is incremented, the service is invoked at
\* the instant of the clock.
Invoked(a) ==
  [a EXCEPT !.lastRequestTime = a.captured,
            !.requestCount = a.requestCount + 1,
            !.pc = "invoking",
            !.invocations = a.invocations + 1,
            !.firstInvoked = IF a.firstInvoked = Never THEN a.clock ELSE a.firstInvoked,
            !.prevInvoked = a.lastInvoked,
            !.lastInvoked = a.clock]

\* checkRateLimit entered by a call of the instance (analyzeEmotion,
\* detectLanguage, generateSuggestions, generateGiftSuggestions): it reads
\* the clock and either sleeps RATE_LIMIT_DELAY or goes on at once.
CheckRateLimit ==
  /\ ai.pc = "idle"
  /\ ai.requestCount < MaxRequests
  /\ LET entered == [ai EXCEPT !.captured = ai.clock]
     IN  ai' = IF entered.captured - entered.lastRequestTime < RATE_LIMIT_DELAY
               THEN [entered EXCEPT !.pc = "sleeping",
                                    !.wake = ai.clock + RATE_LIMIT_DELAY]
               ELSE Invoked(entered)
  /\ lastOp' = [op |-> "checkRateLimit", user |-> "u1", call |-> 0, result |-> NeutralEmotion]
  /\ UNCHANGED << now, giftStore, moodStore, userStore, calls, memVars, searchVars, chatVars >>

\* The timer of the sleeping call fires.
TimerFires ==
  /\ ai.pc = "sleeping"
  /\ ai.clock >= ai.wake
  /\ ai' = Invoked(ai)
  /\ lastOp' = [op |-> "timerFires", user |-> "u1", call |-> 0, result |-> NeutralEmotion]
  /\ UNCHANGED << now, giftStore, moodStore, userStore, calls, memVars, searchVars, chatVars >>

\* model.generateContent settles (a reply or a throw) and the call returns.
ServiceSettles ==
  /\ ai.pc = "invoking"
  /\ ai' = [ai EXCEPT !.pc = "idle"]
  /\ lastOp' = [op |-> "serviceSettles", user |-> "u1", call |-> 0, result |-> NeutralEmotion]
  /\ UNCHANGED << now, giftStore, moodStore, userStore, calls, memVars, searchVars, chatVars >>

\* Half of RATE_LIMIT_DELAY passes.
TickAi ==
  /\ ai.clock + (RATE_LIMIT_DELAY \div 2) <= MaxAiClock
  /\ ai' = [ai EXCEPT !.clock = ai.clock + (RATE_LIMIT_DELAY \div 2)]
  /\ lastOp' = [op |-> "tick", user |-> "u1", call |-> 0, result |-> NeutralEmotion]
  /\ UNCHANGED << now, giftStore, moodStore, userStore, calls, memVars, searchVars, chatVars >>

InitRate == InitMood

NextRate ==
  \/ CheckRateLimit
  \/ TimerFires
  \/ ServiceSettles
  \/ TickAi

SpecRate == InitRate /\ [][NextRate]_vars

\* C16: any two consecutive invocations of the external service made by
\* one GeminiAI instance through checkRateLimit are at least
\* RATE_LIMIT_DELAY apart.
C16_MinimumSpacing ==
  ai.prevInvoked # Never => ai.lastInvoked - ai.prevInvoked >= RATE_LIMIT_DELAY

\* C17: the external service is invoked at most MAX_REQUESTS_PER_MINUTE
\* times within one minute.
C17_PerMinuteCap ==
  (ai.invocations > 0 /\ ai.lastInvoked - ai.firstInvoked < OneMinute)
    => ai.invocations <= MAX_REQUESTS_PER_MINUTE

\* ------------------------------------------------------------------ SpecTrend: mood history and trends

\* The default of the `days` argument of getMoodHistory and getMoodTrends.
TrendDays == 7

\* The days of the window, day 0 the oldest, and the hour the reads are made at.
WindowDays == 0..(TrendDays - 1)
TrendNow == 24 * (TrendDays - 1) + 12

\* The series of daily intensities the specification gives as its example.
ExampleSeries == << 200, 300, 250, 400, 600, 700, 800 >>

\* The hash of day d after one trackEmotion(e) made on that day at noon.
DayRecord(d, e) ==
  LET t == 24 * d + 12
      entry == [emotion |-> e.primary, intensity |-> e.intensity,
                timestamp |-> DateStamp(t), context |-> Undefined]
  IN  TrackingHash(UpdateTracking(LoadTracking(EmptyMoodHash, e, t), entry, Undefined, t))

\* A second series, falling where the example rises.
FallingSeries == << 600, 600, 600, 600, 300, 300, 300 >>

\* What day d holds at the start: nothing, the example's value, or the
\* falling series' value.
DayOptions(d) ==
  << EmptyMoodHash,
     DayRecord(d, Emotion("joy", ExampleSeries[d + 1], Undefined, Undefined)),
     DayRecord(d, Emotion("sadness", FallingSeries[d + 1], Undefined, Undefined)) >>

Reverse(s) == << >> \o [i \in 1..Len(s) |-> s[Len(s) + 1 - i]]

\* hGetAll(`mood:${userId}:${dateStr}`): a day with no key reads as {}.
DayHash(store, u, d) == IF d \in DOMAIN store[u] THEN store[u][d] ELSE EmptyMoodHash

\* Lines 131-138: the MoodTracking pushed for a day that has a hash.
LoadedDay(hash) ==
  [date |-> hash.date,
   overallMood |-> hash.overallMood,
   moodHistory |-> IF "moodHistory" \in hash.keys THEN hash.moodHistory ELSE << >>,
   triggers |-> IF "triggers" \in hash.keys THEN hash.triggers ELSE << >>,
   notes |-> IF "notes" \in hash.keys THEN hash.notes ELSE Undefined]

\* getMoodHistory throws when JSON.parse(dayMood.overallMood) does, on a
\* day of the window whose hash has fields but no overallMood.
HistoryThrows(store, u, t, days) ==
  \E i \in 0..(days - 1) : ParseThrows(DayHash(store, u, Today(t) - i))

\* EmotionTracker.getMoodHistory(days) at time t, when it does not throw:
\* the loop from today backwards pushes the days that have a hash, and the
\* list is returned reversed, oldest day first.
getMoodHistory(store, u, t, days) ==
  LET pushed[i \in 0..days] ==
        IF i = 0 THEN << >>
        ELSE LET hash == DayHash(store, u, Today(t) - (i - 1))
             IN  IF hash.keys # {} THEN Append(pushed[i - 1], LoadedDay(hash))
                 ELSE pushed[i - 1]
  IN  Reverse(pushed[days])

\* reduce((a, b) => a + b, 0).
SumOf(s) ==
  LET f[i \in 0..Len(s)] == IF i = 0 THEN 0 ELSE f[i - 1] + s[i]
  IN  f[Len(s)]

\* Math.sqrt, rounded down.
Sqrt(n) == CHOOSE r \in 0..1000 : r * r <= n /\ (r + 1) * (r + 1) > n

\* What getMoodTrends returns before it has two days.
DefaultTrends ==
  [threw |-> FALSE, trend |-> "stable", averageMood |-> 500, moodVariability |-> 0,
   dominantEmotions |-> << "neutral" >>]

\* How the rounding of the double-precision sums and quotients falls when
\* the two sides of a comparison are equal as exact numbers: the left
\* side comes out below (-1), equal (0) or above (1). In doubles
\* (0.3 + 0.3 + 0.3) / 3 < 0.4 - 0.1 is true and
\* (0.3 + 0.3 + 0.3) / 3 > 0.2 + 0.1 is false.
Roundings == { 0 - 1, 0, 1 }

\* Lines 157-206 of getMoodTrends, on the list getMoodHistory returned.
\* The averages are quotients; the two comparisons are made on the exact
\* quotients, multiplied out, and `rounding` decides them when the exact
\* sides are equal. averageMood and moodVariability are rounded down to
\* thousandths.
TrendsOf(moodHistory, rounding) ==
  IF Len(moodHistory) < 2 THEN DefaultTrends
  ELSE
    LET n == Len(moodHistory)
        allMoods == << >> \o [i \in 1..n |-> moodHistory[i].overallMood.intensity]
        recentMoods == SubSeq(allMoods, Max(1, n - 2), n)
        olderMoods == SubSeq(allMoods, 1, n - 3)
        nr == Len(recentMoods)
        no == Len(olderMoods)
        rs == SumOf(recentMoods)
        os == SumOf(olderMoods)
        above == rs * no - (os + 100 * no) * nr
        below == (rs + 100 * nr) * no - os * nr
        trend == IF no = 0 THEN "stable"
                 ELSE IF above > 0 \/ (above = 0 /\ rounding > 0) THEN "improving"
                 ELSE IF below < 0 \/ (below = 0 /\ rounding < 0) THEN "declining"
                 ELSE "stable"
        averageMood == SumOf(allMoods) \div n
        squares == << >> \o [i \in 1..n |-> (allMoods[i] - averageMood) * (allMoods[i] - averageMood)]
        counts == << >> \o [k \in 1..Len(EmotionOrder) |->
                     Cardinality({ i \in 1..n : moodHistory[i].overallMood.primary = EmotionOrder[k] })]
    IN  [threw |-> FALSE, trend |-> trend, averageMood |-> averageMood,
         moodVariability |-> Sqrt(SumOf(squares) \div n),
         dominantEmotions |-> SubSeq(StableSortDesc(EmotionOrder, counts), 1, 3)]

\* What a read that threw reports.
Threw == [DefaultTrends EXCEPT !.threw = TRUE]

\* No read of the history has been made yet.
Unread == lastOp.op \in {"init", "addMoodNote"}

\* EmotionTracker.getMoodHistory(): `result` is the list returned.
GetMoodHistory(u) ==
  /\ Unread
  /\ req' = EmptyReq
  /\ IF HistoryThrows(moodStore, u, now, TrendDays)
     THEN /\ result' = << >>
          /\ lastOp' = [op |-> "getMoodHistory", user |-> u, call |-> 0, result |-> Threw]
     ELSE /\ result' = getMoodHistory(moodStore, u, now, TrendDays)
          /\ lastOp' = [op |-> "getMoodHistory", user |-> u, call |-> 0,
                        result |-> [DefaultTrends EXCEPT !.threw = FALSE]]
  /\ UNCHANGED << now, auxVars, moodStore, userStore, calls, memVars, chatVars >>

\* EmotionTracker.getMoodTrends(): `result` is the list getMoodHistory
\* gave it.
GetMoodTrends(u, rounding) ==
  /\ Unread
  /\ req' = EmptyReq
  /\ IF HistoryThrows(moodStore, u, now, TrendDays)
     THEN /\ result' = << >>
          /\ lastOp' = [op |-> "getMoodTrends", user |-> u, call |-> 0, result |-> Threw]
     ELSE /\ result' = getMoodHistory(moodStore, u, now, TrendDays)
          /\ lastOp' = [op |-> "getMoodTrends", user |-> u, call |-> 0,
                        result |-> TrendsOf(getMoodHistory(moodStore, u, now, TrendDays),
                                            rounding)]
  /\ UNCHANGED << now, auxVars, moodStore, userStore, calls, memVars, chatVars >>

\* The notes passed to addMoodNote.
NoteInputs == { "slept badly" }

\* EmotionTracker.addMoodNote(note): hSet of the field notes of today's hash.
AddMoodNote(u, note) ==
  /\ lastOp.op = "init"
  /\ moodStore' = [moodStore EXCEPT ![u][Today(now)] =
                     [@ EXCEPT !.keys = @ \cup {"notes"}, !.notes = note]]
  /\ lastOp' = [op |-> "addMoodNote", user |-> u, call |-> 0, result |-> NeutralEmotion]
  /\ UNCHANGED << now, auxVars, userStore, calls, memVars, searchVars, chatVars >>

InitTrend ==
  /\ now = TrendNow
  /\ \E choice \in [WindowDays -> 1..3] :
       moodStore = [u \in Users |->
                      [d \in WindowDays |->
                         IF u = "u1" THEN DayOptions(d)[choice[d]] ELSE EmptyMoodHash]]
  /\ userStore = [u \in Users |-> EmptyUserHash]
  /\ calls = [c \in Calls |-> IdleCall]
  /\ lastOp = [op |-> "init", user |-> "u1", call |-> 0, result |-> NeutralEmotion]
  /\ memStore = [u \in Users |-> << >>]
  /\ nextId = 1
  /\ created = << >>
  /\ ops = 0
  /\ req = EmptyReq
  /\ result = << >>
  /\ chatStore = [u \in Users |-> << >>]
  /\ turns = [t \in Turns |-> IdleTurn]
  /\ moodSeen = [u \in Users |-> NotSeen]
  /\ giftStore = [u \in Users |-> {}]
  /\ ai = IdleAi

NextTrend ==
  \/ \E u \in Users : GetMoodHistory(u)
  \/ \E u \in Users, rounding \in Roundings : GetMoodTrends(u, rounding)
  \/ \E u \in Users, note \in NoteInputs : AddMoodNote(u, note)

SpecTrend == InitTrend /\ [][NextTrend]_vars

\* ------------------------------------------------------------------ claims on SpecTrend

\* The days of the window of user u that have a record.
RecordedDays(u) ==
  { d \in (Today(now) - (TrendDays - 1))..Today(now) : DayHash(moodStore, u, d).keys # {} }

\* The overallMood.intensity of those days, oldest day first.
WindowSeries(u) ==
  LET ds == RecordedDays(u)
  IN  << >> \o [k \in 1..Cardinality(ds) |->
        LET d == CHOOSE e \in ds : Cardinality({ o \in ds : o < e }) = k - 1
        IN  moodStore[u][d].overallMood.intensity]

\* mean(a) > mean(b) + margin, for non-empty a and b.
MeanAbove(a, b, margin) ==
  SumOf(a) * Len(b) > SumOf(b) * Len(a) + margin * Len(a) * Len(b)

\* C19: with the daily overallMood.intensity series of the window, oldest
\* first and at least 2 days long, recent its last 3 values and older the
\* rest, getMoodTrends returns improving iff mean(recent) > mean(older) +
\* 0.1, declining iff mean(recent) < mean(older) - 0.1, stable otherwise
\* and whenever older is empty; for the example series it is improving.
C19_TrendClassification ==
  (lastOp.op = "getMoodTrends" /\ ~lastOp.result.threw) =>
    LET series == WindowSeries(lastOp.user)
        n == Len(series)
        recent == << >> \o [k \in 1..Min(3, n) |-> series[n - Min(3, n) + k]]
        older == << >> \o [k \in 1..Max(0, n - 3) |-> series[k]]
        improving == older # << >> /\ MeanAbove(recent, older, 100)
        declining == older # << >> /\ MeanAbove(older, recent, 100)
        trend == lastOp.result.trend
    IN  n >= 2 =>
          /\ trend = "improving" <=> improving
          /\ trend = "declining" <=> declining
          /\ trend = "stable" <=> (~improving /\ ~declining)
          /\ series = ExampleSeries => trend = "improving"

\* C18: the mood aggregator never raises on a missing or malformed
\* persisted record: getMoodHistory and getMoodTrends complete normally
\* whatever the hashes of the window hold.
C18_ReadsNeverRaise ==
  lastOp.op \in {"getMoodHistory", "getMoodTrends"} => ~lastOp.result.threw

\* ------------------------------------------------------------------ SpecRemember: which messages become memories

\* importantKeywords of MemoryManager.shouldCreateMemory.
importantKeywords ==
  << << "r", "e", "m", "e", "m", "b", "e", "r" >>, << "i", "m", "p", "o", "r", "t", "a", "n", "t" >>, << "s", "p", "e", "c", "i", "a", "l" >>, << "l", "o", "v", "e" >>, << "h", "a", "t", "e" >>, << "n", "e", "v", "e", "r" >>,
     << "a", "l", "w", "a", "y", "s" >>, << "d", "r", "e", "a", "m" >>, << "g", "o", "a", "l" >>, << "w", "i", "s", "h" >>, << "f", "e", "a", "r" >>, << "w", "o", "r", "r", "y" >> >>

\* MemoryManager.shouldCreateMemory (memory.ts): the returns in their order.
MemoryManager_shouldCreateMemory(message, emotion) ==
  IF Len(message) < 10 THEN FALSE
  ELSE IF emotion.intensity > 700 THEN TRUE
  ELSE IF \E k \in 1..Len(importantKeywords) :
            includes(toLowerCase(message), importantKeywords[k]) THEN TRUE
  ELSE IF includes(message, << "?" >>) THEN TRUE
  ELSE IF Len(message) > 50 THEN TRUE
  ELSE FALSE

\* The messages: 2, 9, 10, 11, 46, 50 and 51 characters long, with and
\* without a keyword or a question mark.
RememberTexts ==
  { << "h", "i" >>, << "l", "o", "v", "e", " ", "y", "o", "u", "?" >>, << "I", " ", "L", "O", "V", "E", " ", "y", "o", "u" >>, << "p", "l", "a", "i", "n", " ", "t", "e", "x", "t" >>, << "i", "s", " ", "i", "t", " ", "l", "a", "t", "e", "?" >>, << "W", "i", "s", "h", "e", "s", ".", ".", "." >>,
    << "I", " ", "h", "a", "v", "e", " ", "a", " ", "h", "u", "g", "e", " ", "d", "r", "e", "a", "m", " ", "a", "b", "o", "u", "t", " ", "t", "r", "a", "v", "e", "l", "l", "i", "n", "g", " ", "t", "h", "e", " ", "w", "o", "r", "l", "d" >>,
    << "t", "h", "e", " ", "q", "u", "i", "c", "k", " ", "b", "r", "o", "w", "n", " ", "f", "o", "x", " ", "j", "u", "m", "p", "s", " ", "o", "v", "e", "r", " ", "t", "h", "e", " ", "l", "a", "z", "y", " ", "d", "o", "g", " ", "a", "g", "a", "i", "n", "!" >>,
    << "t", "h", "e", " ", "q", "u", "i", "c", "k", " ", "b", "r", "o", "w", "n", " ", "f", "o", "x", " ", "j", "u", "m", "p", "s", " ", "o", "v", "e", "r", " ", "t", "h", "e", " ", "l", "a", "z", "y", " ", "d", "o", "g", " ", "a", "g", "a", "i", "n", "!", "!" >> }

\* The emotions: at, just above and away from the 0.7 of the rule.
RememberEmotions ==
  { Emotion("neutral", 500, Undefined, Undefined),
    Emotion("joy", 700, Undefined, Undefined),
    Emotion("joy", 701, Undefined, Undefined),
    Emotion("excitement", 900, Undefined, Undefined) }

MessageTypes == { "user", "assistant" }

\* The arguments of the call, as `req` holds them.
RememberReq(message, emotion) ==
  [query |-> message, limit |-> 0, types |-> << >>, historyFail |-> FALSE,
   memFail |-> FALSE, llm |-> LlmThrows, emotion |-> emotion]

\* No call has been made yet.
Uncalled == lastOp.op = "init"

\* shouldCreateMemory of the two managers on the same arguments.
ShouldCreateMemory(u) ==
  /\ Uncalled
  /\ lastOp' = [op |-> "shouldCreateMemory", user |-> u, call |-> 0,
                result |-> [memoryManager |->
                              MemoryManager_shouldCreateMemory(req.query, req.emotion),
                            langChain |-> shouldCreateMemory(req.query, req.emotion)]]
  /\ UNCHANGED << now, auxVars, moodStore, userStore, calls, memVars, searchVars, chatVars >>

\* MemoryManager.createMemoryFromMessage(message, emotion, messageType).
CreateMemoryFromMessage(u, messageType) ==
  /\ Uncalled
  /\ LET creates == messageType = "user"
                      /\ MemoryManager_shouldCreateMemory(req.query, req.emotion)
         type == determineMemoryType(req.query)
         memory == NewMemory(nextId, u, req.query, type, req.emotion, << >>,
                             NoImportance, now)
     IN  /\ memStore' = IF creates THEN [memStore EXCEPT ![u] = addMemory(@, memory)]
                        ELSE memStore
         /\ result' = IF creates THEN << memory >> ELSE << >>
         /\ created' = IF creates
                       THEN Append(created, [user |-> u, content |-> req.query,
                                             type |-> type, emotion |-> req.emotion,
                                             tags |-> << >>, importance |-> NoImportance,
                                             given |-> {"emotion"}])
                       ELSE created
         /\ nextId' = IF creates THEN nextId + 1 ELSE nextId
         /\ ops' = IF creates THEN ops + 1 ELSE ops
         /\ lastOp' = [op |-> "createMemoryFromMessage", user |-> u,
                       call |-> IF creates THEN nextId ELSE 0,
                       result |-> NeutralEmotion]
  /\ UNCHANGED << now, auxVars, moodStore, userStore, calls, req, chatVars >>

\* LangChainMemoryManager.createMemoryIfImportant(message, emotion); reply
\* is what the tag extraction's call of the model gave.
CreateMemoryIfImportant(u, reply) ==
  /\ Uncalled
  /\ LET creates == shouldCreateMemory(req.query, req.emotion)
         memory == ImportantMemory(nextId, u, req.query, req.emotion, reply, now)
     IN  /\ memStore' = IF creates THEN [memStore EXCEPT ![u] = addMemory(@, memory)]
                        ELSE memStore
         /\ result' = IF creates THEN << memory >> ELSE << >>
         /\ nextId' = IF creates THEN nextId + 1 ELSE nextId
         /\ lastOp' = [op |-> "createMemoryIfImportant", user |-> u,
                       call |-> IF creates THEN nextId ELSE 0,
                       result |-> NeutralEmotion]
  /\ UNCHANGED << now, auxVars, moodStore, userStore, calls, created, ops, req, chatVars >>

InitRemember ==
  /\ now = 0
  /\ moodStore = [u \in Users |-> [d \in Days |-> EmptyMoodHash]]
  /\ userStore = [u \in Users |-> EmptyUserHash]
  /\ calls = [c \in Calls |-> IdleCall]
  /\ lastOp = [op |-> "init", user |-> "u1", call |-> 0, result |-> NeutralEmotion]
  /\ memStore = [u \in Users |-> << >>]
  /\ nextId = 1
  /\ created = << >>
  /\ ops = 0
  /\ \E message \in RememberTexts, emotion \in RememberEmotions :
       req = RememberReq(message, emotion)
  /\ result = << >>
  /\ chatStore = [u \in Users |-> << >>]
  /\ turns = [t \in Turns |-> IdleTurn]
  /\ moodSeen = [u \in Users |-> NotSeen]
  /\ giftStore = [u \in Users |-> {}]
  /\ ai = IdleAi

NextRemember ==
  \/ \E u \in Users : ShouldCreateMemory(u)
  \/ \E u \in Users, messageType \in MessageTypes : CreateMemoryFromMessage(u, messageType)
  \/ \E u \in Users, reply \in TagOutcomes : CreateMemoryIfImportant(u, reply)

SpecRemember == InitRemember /\ [][NextRemember]_vars

\* The keywords of the rule, as a set.
RememberKeywords ==
  { << "r", "e", "m", "e", "m", "b", "e", "r" >>, << "i", "m", "p", "o", "r", "t", "a", "n", "t" >>, << "s", "p", "e", "c", "i", "a", "l" >>, << "l", "o", "v", "e" >>, << "h", "a", "t", "e" >>, << "n", "e", "v", "e", "r" >>,
    << "a", "l", "w", "a", "y", "s" >>, << "d", "r", "e", "a", "m" >>, << "g", "o", "a", "l" >>, << "w", "i", "s", "h" >>, << "f", "e", "a", "r" >>, << "w", "o", "r", "r", "y" >> }

\* The rule of the claim on the arguments held by req.
ShouldRemember ==
  /\ Len(req.query) >= 10
  /\ \/ req.emotion.intensity > 700
     \/ \E kw \in RememberKeywords : includes(toLowerCase(req.query), kw)
     \/ \E i \in 1..Len(req.query) : req.query[i] = "?"
     \/ Len(req.query) > 50

\* C20: shouldCreateMemory is true exactly when the message has at least
\* 10 characters and one of: intensity above 0.7, a keyword of the list
\* (case-insensitively), a question mark, more than 50 characters; the two
\* implementations agree; and createMemoryFromMessage and
\* createMemoryIfImportant store nothing for a message shorter than 10
\* characters.
C20_ShouldRemember ==
  /\ lastOp.op = "shouldCreateMemory" =>
       /\ lastOp.result.memoryManager = ShouldRemember
       /\ lastOp.result.langChain = ShouldRemember
  /\ lastOp.op \in {"createMemoryFromMessage", "createMemoryIfImportant"} =>
       /\ Len(req.query) < 10 => (result = << >> /\ \A u \in Users : memStore[u] = << >>)
       /\ result # << >> => ShouldRemember

\* A message of 9 characters with a keyword, a question mark and an
\* intensity of 0.9 was passed to createMemoryIfImportant and nothing was
\* stored.
C20_Witness ==
  /\ lastOp.op = "createMemoryIfImportant"
  /\ req.query = << "l", "o", "v", "e", " ", "y", "o", "u", "?" >>
  /\ req.emotion.intensity = 900
  /\ \A u \in Users : memStore[u] = << >>

\* ------------------------------------------------------------------ gift reminders

\* The occasions, the dates (in hours) and the notes passed to
\* createGiftReminder.
GiftOccasions == { "birthday", "Graduation" }
GiftDates == { 6, 36, 2400 }
GiftNotes == { Undefined, "she likes tea" }

\* What the model call of generateGiftSuggestions comes back with: it
\* throws (or its text does not parse), or the reply parses into these
\* suggestions, named here by their name field.
GiftThrows == [ok |-> FALSE, names |-> << >>]
GiftOutcomes ==
  { GiftThrows, [ok |-> TRUE, names |-> << "Star Map", "Tea Set", "Scarf", "Mug" >>] }

\* GeminiAI.getDefaultGiftSuggestions.
getDefaultGiftSuggestions ==
  << "Personalized Photo Frame", "Custom Jewelry", "Experience Gift" >>

\* GeminiAI.generateGiftSuggestions: suggestions.slice(0, 3), or the
\* defaults from the catch.
generateGiftSuggestions(gifts) ==
  IF gifts.ok THEN SubSeq(gifts.names, 1, Min(3, Len(gifts.names)))
  ELSE getDefaultGiftSuggestions

\* GiftReminderManager.getUser: the parsed data field of user:<u>, or null.
HasUser(store, u) == "data" \in store[u].keys

\* The GiftReminder createGiftReminder builds.
GiftReminder(id, u, occasion, date, suggestedGifts, notes, t) ==
  [id |-> id, userId |-> u, occasion |-> occasion, date |-> DateStamp(date),
   suggestedGifts |-> suggestedGifts, isCompleted |-> FALSE, notes |-> notes,
   createdAt |-> DateStamp(t)]

\* JSON.stringify of a reminder (its dates as ISO strings): a member of
\* the sorted set.
JsonReminder(r) ==
  [r EXCEPT !.date = JsonStamp(r.date), !.createdAt = JsonStamp(r.createdAt)]

\* JSON.parse of a member, with date and createdAt made Dates again.
ParseReminder(member) ==
  [member EXCEPT !.date = DateStamp(member.date.hour),
                 !.createdAt = DateStamp(member.createdAt.hour)]

\* RedisUtils.addGiftReminder: zadd(key, reminder.date.getTime(), member).
addGiftReminder(set, r) == set \cup { JsonReminder(r) }

\* The order of a sorted set: by score, members of one score in the order
\* of their strings (the id comes first in the string, and of two members
\* that differ in isCompleted alone, false comes before true).
ZBefore(a, b) ==
  \/ a.date.hour < b.date.hour
  \/ a.date.hour = b.date.hour /\ a.id < b.id
  \/ a.date.hour = b.date.hour /\ a.id = b.id /\ ~a.isCompleted /\ b.isCompleted

ZRange(members) ==
  << >> \o [k \in 1..Cardinality(members) |->
              CHOOSE m \in members :
                Cardinality({ o \in members : ZBefore(o, m) }) = k - 1]

\* RedisUtils.getUpcomingGifts: zrangebyscore(key, now, now + days), parsed.
getUpcomingGifts(set, t, days) ==
  LET hit == ZRange({ m \in set : t <= m.date.hour /\ m.date.hour <= t + days * 24 })
  IN  << >> \o [i \in 1..Len(hit) |-> ParseReminder(hit[i])]

\* RedisUtils.getAllGiftReminders: zrange(key, 0, -1), parsed.
getAllGiftReminders(set) ==
  LET all == ZRange(set)
  IN  << >> \o [i \in 1..Len(all) |-> ParseReminder(all[i])]

\* reminders.find(r => r.id === reminderId): the place of the first match,
\* 0 when there is none.
FindReminder(reminders, reminderId) ==
  IF \E i \in 1..Len(reminders) : reminders[i].id = reminderId
  THEN CHOOSE i \in 1..Len(reminders) :
         /\ reminders[i].id = reminderId
         /\ \A j \in 1..(i - 1) : reminders[j].id # reminderId
  ELSE 0

\* Lines 209-236 of markReminderCompleted on the sorted set: the reminder
\* found among those of the next 365 days gets isCompleted = true, zrem
\* removes the member equal to the string of the reminder so changed, and
\* addGiftReminder adds that string.
markReminderCompleted(set, reminderId, t) ==
  LET reminders == getUpcomingGifts(set, t, 365)
      i == FindReminder(reminders, reminderId)
  IN  IF i = 0 THEN set
      ELSE LET reminder == [reminders[i] EXCEPT !.isCompleted = TRUE]
           IN  addGiftReminder(set \ { JsonReminder(reminder) }, reminder)

\* RedisUtils.removeGiftReminder: zrem of the string of the first reminder
\* with the id.
removeGiftReminder(set, reminderId) ==
  LET reminders == getAllGiftReminders(set)
      i == FindReminder(reminders, reminderId)
  IN  IF i = 0 THEN set ELSE set \ { JsonReminder(reminders[i]) }

\* GiftReminderManager.createGiftReminder(occasion, date, notes) of user
\* u's manager; gifts is what the model call came back with.
CreateGiftReminder(u, occasion, date, notes, gifts) ==
  /\ LET suggested == IF HasUser(userStore, u) THEN generateGiftSuggestions(gifts)
                      ELSE << >>
         reminder == GiftReminder(nextId, u, occasion, date, suggested, notes, now)
     IN  /\ giftStore' = [giftStore EXCEPT ![u] = addGiftReminder(@, reminder)]
         /\ result' = << reminder >>
  /\ nextId' = nextId + 1
  /\ req' = EmptyReq
  /\ lastOp' = [op |-> "createGiftReminder", user |-> u, call |-> nextId,
                result |-> NeutralEmotion]
  /\ UNCHANGED << now, ai, moodStore, userStore, calls, memStore, created, ops, chatVars >>

\* GiftReminderManager.getUpcomingReminders(days) of user u's manager.
GetUpcomingReminders(u, days) ==
  /\ Retrieved("getUpcomingReminders", u, [EmptyReq EXCEPT !.limit = days],
               getUpcomingGifts(giftStore[u], now, days), NeutralEmotion)
  /\ UNCHANGED memVars

\* GiftReminderManager.markReminderCompleted(reminderId, selectedGift) of
\* user u's manager: with a selected gift and a user, setUserData writes
\* the data field.
MarkReminderCompleted(u, reminderId, selectedGift) ==
  /\ LET found == FindReminder(getUpcomingGifts(giftStore[u], now, 365), reminderId) # 0
     IN  /\ giftStore' = [giftStore EXCEPT ![u] = markReminderCompleted(@, reminderId, now)]
         /\ userStore' = IF found /\ selectedGift /\ HasUser(userStore, u)
                         THEN [userStore EXCEPT ![u].keys = @ \cup {"data"}]
                         ELSE userStore
  /\ lastOp' = [op |-> "markReminderCompleted", user |-> u, call |-> reminderId,
                result |-> NeutralEmotion]
  /\ UNCHANGED << now, ai, moodStore, calls, memVars, searchVars, chatVars >>

\* RedisUtils.removeGiftReminder(userId, reminderId).
RemoveGiftReminder(u, reminderId) ==
  /\ giftStore' = [giftStore EXCEPT ![u] = removeGiftReminder(@, reminderId)]
  /\ lastOp' = [op |-> "removeGiftReminder", user |-> u, call |-> reminderId,
                result |-> NeutralEmotion]
  /\ UNCHANGED << now, ai, moodStore, userStore, calls, memVars, searchVars, chatVars >>

\* ------------------------------------------------------------------ SpecIsolation: two users' data side by side

\* The memories stored before the operation: one of u1, two of u2.
SeedIsolation == << Seed("u1", 1, 0), Seed("u2", 2, 0), Seed("u2", 4, 0) >>

\* The ids handed out before the operation: the memories', one reminder
\* of each user and one chat message of u2.
SeededIds == Len(SeedIsolation) + 3

\* The reminder of user u stored before the operation.
SeedReminder(u, registered) ==
  GiftReminder(Len(SeedIsolation) + (IF u = "u1" THEN 1 ELSE 2), u, "birthday", 36,
               IF u \in registered THEN getDefaultGiftSuggestions ELSE << >>,
               Undefined, 0)

\* No operation has reported yet and no chat request is under way.
Fresh == lastOp.op = "init" /\ \A t \in Turns : turns[t].pc = "idle"

\* The operations, each taken on a state where none has reported.
IsolatedRecordEmotion(u, e) == Fresh /\ RecordEmotion(u, e, Undefined)
IsolatedAddMoodNote(u, note) == Fresh /\ AddMoodNote(u, note)
IsolatedCreateMemory(u, a) == Fresh /\ CreateMemory(u, a)
IsolatedUpdateMemoryAccess(u, memoryId) == Fresh /\ UpdateMemoryAccess(u, memoryId)
IsolatedGetRecentMemories(u) == Fresh /\ GetRecentMemories(u, MaxLimit)
IsolatedSearchMemories(u, query) == Fresh /\ SearchMemories(u, query, MaxLimit)
IsolatedChat(u, message) == Fresh /\ ChatStart(1, u, message)
IsolatedCreateGiftReminder(u, occasion, date, notes, gifts) ==
  Fresh /\ CreateGiftReminder(u, occasion, date, notes, gifts)
IsolatedGetUpcomingReminders(u) == Fresh /\ GetUpcomingReminders(u, 30)
IsolatedMarkReminderCompleted(u, reminderId, selectedGift) ==
  Fresh /\ MarkReminderCompleted(u, reminderId, selectedGift)
IsolatedRemoveGiftReminder(u, reminderId) == Fresh /\ RemoveGiftReminder(u, reminderId)

\* Each user has stored data: memories, a reminder, and, for the users
\* in `recorded`, a mood record of today and a current mood; the users in
\* `registered` have their data field; u2 has a chat message.
InitIsolation ==
  /\ now = 12
  /\ \E recorded \in SUBSET Users, registered \in SUBSET Users :
       /\ moodStore = [u \in Users |-> [d \in Days |->
                         IF u \in recorded /\ d = 0
                         THEN DayRecord(0, Emotion("joy", 800, Undefined, Undefined))
                         ELSE EmptyMoodHash]]
       /\ userStore = [u \in Users |->
                         [keys |-> (IF u \in recorded THEN {"currentMood"} ELSE {})
                                     \cup (IF u \in registered THEN {"data", "currentMood"} ELSE {}),
                          currentMood |-> IF u \in recorded
                                          THEN JsonEmotion(Emotion("joy", 800, Undefined, Undefined))
                                          ELSE JsonEmotion(NeutralEmotion)]]
       /\ giftStore = [u \in Users |-> addGiftReminder({}, SeedReminder(u, registered))]
  /\ calls = [c \in Calls |-> IdleCall]
  /\ lastOp = [op |-> "init", user |-> "u1", call |-> 0, result |-> NeutralEmotion]
  /\ memStore = [u \in Users |-> Replay(SeedIsolation, u)]
  /\ nextId = SeededIds + 1
  /\ created = [i \in 1..Len(SeedIsolation) |->
                  LET a == MemoryInputs[SeedIsolation[i].input]
                  IN  [user |-> SeedIsolation[i].user, content |-> a.content,
                       type |-> a.type, emotion |-> a.emotion, tags |-> a.tags,
                       importance |-> a.importance, given |-> a.given]]
  /\ ops = 0
  /\ req = EmptyReq
  /\ result = << >>
  /\ chatStore = [u \in Users |->
                    IF u = "u2"
                    THEN addChatMessage(<< >>, ChatMessage(SeededIds, u, << "h", "i", " ", "t", "h", "e", "r", "e" >>, "user",
                                                           NoEmotion, << >>, 0))
                    ELSE << >>]
  /\ turns = [t \in Turns |-> IdleTurn]
  /\ moodSeen = [u \in Users |-> NotSeen]
  /\ ai = IdleAi

NextIsolation ==
  \/ \E u \in Users, e \in SessionEmotions : IsolatedRecordEmotion(u, e)
  \/ \E u \in Users, note \in NoteInputs : IsolatedAddMoodNote(u, note)
  \/ \E u \in Users, a \in CapInputs : IsolatedCreateMemory(u, a)
  \/ \E u \in Users, id \in 1..SeededIds : IsolatedUpdateMemoryAccess(u, id)
  \/ \E u \in Users : IsolatedGetRecentMemories(u)
  \/ \E u \in Users, query \in Queries : IsolatedSearchMemories(u, query)
  \/ \E u \in Users, message \in ChatInputs : IsolatedChat(u, message)
  \/ \E llm \in LlmOutcomes : ChatContext(1, llm)
  \/ ChatRespondStep(1)
  \/ \E summaryThrows \in BOOLEAN, reply \in TagOutcomes : ChatSave(1, summaryThrows, reply)
  \/ ChatSetMood(1)
  \/ \E u \in Users, occasion \in GiftOccasions, date \in GiftDates, notes \in GiftNotes,
        gifts \in GiftOutcomes : IsolatedCreateGiftReminder(u, occasion, date, notes, gifts)
  \/ \E u \in Users : IsolatedGetUpcomingReminders(u)
  \/ \E u \in Users, id \in 1..SeededIds, selectedGift \in BOOLEAN :
        IsolatedMarkReminderCompleted(u, id, selectedGift)
  \/ \E u \in Users, id \in 1..SeededIds : IsolatedRemoveGiftReminder(u, id)

SpecIsolation == InitIsolation /\ [][NextIsolation]_vars

\* The step is one of an operation performed on behalf of user a: a step
\* of a's chat request, or an operation that reports for a.
ActsFor(a) ==
  \/ \E t \in Turns : turns'[t] # turns[t] /\ turns'[t].user = a
  \/ turns' = turns /\ lastOp' # lastOp /\ lastOp'.user = a

\* C12: an operation performed on behalf of user a leaves every stored
\* record of each other user b as it was (mood records, user hash,
\* memories, chat messages, reminders), and what it returns holds records
\* of a alone: the records returned carry a's userId, and the memories a
\* chat turn used are not among b's.
C12_UserIsolation ==
  [][\A a \in Users : ActsFor(a) =>
       /\ \A b \in Users \ {a} :
            /\ moodStore'[b] = moodStore[b]
            /\ userStore'[b] = userStore[b]
            /\ memStore'[b] = memStore[b]
            /\ chatStore'[b] = chatStore[b]
            /\ giftStore'[b] = giftStore[b]
            /\ \A t \in Turns : turns'[t].user = a =>
                 \A k \in 1..Len(turns'[t].response.memoriesUsed) :
                   \A i \in 1..Len(memStore'[b]) :
                     memStore'[b][i].id # turns'[t].response.memoriesUsed[k]
       /\ result' # result => \A i \in 1..Len(result') : result'[i].userId = a]_vars

\* u1 touched a memory of u2, by its id, while u2 had memories, a
\* reminder and a chat message stored.
C12_Witness ==
  /\ lastOp.op = "updateMemoryAccess"
  /\ lastOp.user = "u1"
  /\ \E i \in 1..Len(memStore["u2"]) : memStore["u2"][i].id = lastOp.call
  /\ giftStore["u2"] # {}
  /\ chatStore["u2"] # << >>

\* ------------------------------------------------------------------ SpecImportance

\* Fifty characters without a keyword of calculateImportance.
ImportancePadding ==
  << "t", "h", "e", " ", "q", "u", "i", "c", "k", " ", "b", "r", "o", "w", "n", " ", "f", "o", "x", " ", "j", "u", "m", "p", "s", " ", "o", "v", "e", "r", " ", "t", "h", "e", " ", "l", "a", "z", "y", " ", "d", "o", "g", " ", "a", "g", "a", "i", "n", ".", " " >>

\* The seventeen keywords in one message of more than 100 characters.
AllKeywordsText ==
  << "l", "o", "v", "e", " ", "h", "a", "t", "e", " ", "i", "m", "p", "o", "r", "t", "a", "n", "t", " ", "s", "p", "e", "c", "i", "a", "l", " ", "r", "e", "m", "e", "m", "b", "e", "r", " ", "n", "e", "v", "e", "r", " ", "f", "o", "r", "g", "e", "t", " ", "b", "i", "r", "t", "h", "d", "a", "y", " ", "a", "n", "n", "i", "v", "e", "r", "s", "a", "r", "y", " ", "p", "r", "o", "m", "o", "t", "i", "o", "n", " ", "a", "c", "h", "i", "e", "v", "e", "m", "e", "n", "t", " ", "g", "o", "a", "l", " ", "d", "r", "e", "a", "m", " ", "w", "i", "s", "h", " ", "f", "e", "a", "r", " ", "w", "o", "r", "r", "y", " ", "e", "x", "c", "i", "t", "e", "d", " ", "p", "r", "o", "u", "d", "?" >>

\* Messages of 2, 11, 100, 101, 200, 201 characters and the keyword message
\* alone and followed by 100 characters.
ImportanceTexts ==
  { << "h", "i" >>, << "I", " ", "l", "o", "v", "e", " ", "y", "o", "u", "?" >>,
    ImportancePadding \o ImportancePadding,
    ImportancePadding \o ImportancePadding \o << "x" >>,
    ImportancePadding \o ImportancePadding \o ImportancePadding \o ImportancePadding,
    ImportancePadding \o ImportancePadding \o ImportancePadding \o ImportancePadding \o << "?" >>,
    AllKeywordsText,
    AllKeywordsText \o ImportancePadding \o ImportancePadding }

\* The emotion argument: absent, and intensities 0, 0.5 and 1 with a primary
\* of each of the three groups.
ImportanceEmotions ==
  { NoEmotion,
    Emotion("neutral", 0, Undefined, Undefined),
    Emotion("neutral", 500, Undefined, Undefined),
    Emotion("sadness", 1000, Undefined, Undefined),
    Emotion("love", 1000, Undefined, Undefined) }

\* The importance argument of createMemory: absent, 0, 0.4, 1 and 1.5.
ImportanceArguments == { NoImportance, 0, 400, 1000, 1500 }

\* calculateImportance of the two managers on the same arguments, as
\* createMemory and createMemoryIfImportant call it.
CalculateImportance(u) ==
  /\ Uncalled
  /\ lastOp' = [op |-> "calculateImportance", user |-> u, call |-> 0,
                result |-> [memoryManager |-> calculateImportance(req.query, req.emotion),
                            langChain |->
                              LangChain_calculateImportance(req.query, req.emotion)]]
  /\ UNCHANGED << now, auxVars, moodStore, userStore, calls, memVars, searchVars, chatVars >>

\* createMemory(content, type, emotion, [], importance) on the arguments
\* held by req.
CreateMemoryWithImportance(u, importance) ==
  /\ Uncalled
  /\ CreateMemory(u, [content |-> req.query, type |-> "memory", emotion |-> req.emotion,
                      tags |-> << >>, importance |-> importance,
                      given |-> IF importance = NoImportance THEN {"emotion"}
                                ELSE {"emotion", "importance"}])

InitImportance ==
  /\ now = 0
  /\ moodStore = [u \in Users |-> [d \in Days |-> EmptyMoodHash]]
  /\ userStore = [u \in Users |-> EmptyUserHash]
  /\ calls = [c \in Calls |-> IdleCall]
  /\ lastOp = [op |-> "init", user |-> "u1", call |-> 0, result |-> NeutralEmotion]
  /\ memStore = [u \in Users |-> << >>]
  /\ nextId = 1
  /\ created = << >>
  /\ ops = 0
  /\ \E message \in ImportanceTexts, emotion \in ImportanceEmotions :
       req = RememberReq(message, emotion)
  /\ result = << >>
  /\ chatStore = [u \in Users |-> << >>]
  /\ turns = [t \in Turns |-> IdleTurn]
  /\ moodSeen = [u \in Users |-> NotSeen]
  /\ giftStore = [u \in Users |-> {}]
  /\ ai = IdleAi

NextImportance ==
  \/ \E u \in Users : CalculateImportance(u)
  \/ \E u \in Users, importance \in ImportanceArguments :
       CreateMemoryWithImportance(u, importance)
  \/ \E u \in Users, messageType \in MessageTypes : CreateMemoryFromMessage(u, messageType)
  \/ \E u \in Users, reply \in TagOutcomes : CreateMemoryIfImportant(u, reply)

SpecImportance == InitImportance /\ [][NextImportance]_vars

\* The importance calculateImportance returned lies in [0, 1], for both
\* managers.
ComputedImportanceBounded ==
  lastOp.op = "calculateImportance"
    => /\ lastOp.result.memoryManager \in 0..1000
       /\ lastOp.result.langChain \in 0..1000

\* The bonuses stacked beyond 1 and the result is 1.
ComputedImportanceClamped ==
  /\ lastOp.op = "calculateImportance"
  /\ req.query = AllKeywordsText \o ImportancePadding \o ImportancePadding
  /\ req.emotion.primary = "love"
  /\ lastOp.result.memoryManager = 1000

MaxEntries == 2

\* The entries of a history: three labels, intensities 0, 0.5 and 0.8,
\* recorded at hour 0 or 12.
EntryInputs ==
  { [emotion |-> e, intensity |-> i, timestamp |-> DateStamp(h), context |-> Undefined] :
      e \in {"joy", "sadness", "neutral"}, i \in {0, 500, 800}, h \in {0, 12} }

\* The histories of at most MaxEntries entries.
HistoryInputs ==
  UNION { [1..n -> EntryInputs] : n \in 0..MaxEntries }

\* calculateOverallMood(currentMood.moodHistory) of call c, as trackEmotion
\* calls it.
CalculateOverallMood(c) ==
  /\ Uncalled
  /\ LET mood == calculateOverallMood(calls[c].tracking.moodHistory, now)
     IN  /\ calls' = [calls EXCEPT ![c].tracking.overallMood = mood]
         /\ lastOp' = [op |-> "calculateOverallMood", user |-> calls[c].user,
                       call |-> c, result |-> mood]
  /\ UNCHANGED << now, auxVars, moodStore, userStore, memVars, searchVars, chatVars >>

\* The history of call 1 is drawn, at hour 12 or 24.
InitOverall ==
  /\ now \in {12, 24}
  /\ moodStore = [u \in Users |-> [d \in Days |-> EmptyMoodHash]]
  /\ userStore = [u \in Users |-> EmptyUserHash]
  /\ \E h \in HistoryInputs :
       calls = [c \in Calls |->
                  IF c = 1 THEN [IdleCall EXCEPT !.tracking.moodHistory = h]
                  ELSE IdleCall]
  /\ lastOp = [op |-> "init", user |-> "u1", call |-> 0, result |-> NeutralEmotion]
  /\ memStore = [u \in Users |-> << >>]
  /\ nextId = 1
  /\ created = << >>
  /\ ops = 0
  /\ req = EmptyReq
  /\ result = << >>
  /\ chatStore = [u \in Users |-> << >>]
  /\ turns = [t \in Turns |-> IdleTurn]
  /\ moodSeen = [u \in Users |-> NotSeen]
  /\ giftStore = [u \in Users |-> {}]
  /\ ai = IdleAi

NextOverall == \E c \in Calls : CalculateOverallMood(c)

SpecOverall == InitOverall /\ [][NextOverall]_vars

\* What an entry adds to the sum of its label at time t.
Contribution(e, t) == e.intensity * DecayWeight(t - e.timestamp.hour)

\* The accumulated sum of a label over the entries of a history.
Accumulated(h, label, t) ==
  LET of == { i \in 1..Len(h) : h[i].emotion = label }
      sum[S \in SUBSET of] ==
        IF S = {} THEN 0
        ELSE LET i == CHOOSE x \in S : TRUE
             IN  Contribution(h[i], t) + sum[S \ {i}]
  IN  sum[of]

\* The sum of the weights of the entries of a history.
AllWeights(h, t) ==
  LET sum[S \in SUBSET (1..Len(h))] ==
        IF S = {} THEN 0
        ELSE LET i == CHOOSE x \in S : TRUE
             IN  DecayWeight(t - h[i].timestamp.hour) + sum[S \ {i}]
  IN  sum[1..Len(h)]

\* The greatest accumulated sum over the labels.
MaxAccumulated(h, t) ==
  LET sums == { Accumulated(h, EmotionOrder[k], t) : k \in 1..Len(EmotionOrder) }
  IN  CHOOSE s \in sums : \A x \in sums : x <= s

\* The first label, in enumeration order, whose sum is the greatest.
FirstMaximal(h, t) ==
  LET ks == { k \in 1..Len(EmotionOrder) :
                Accumulated(h, EmotionOrder[k], t) = MaxAccumulated(h, t) }
  IN  EmotionOrder[CHOOSE k \in ks : \A j \in ks : k <= j]

\* The parts of the claim that do not name the primary label: the empty
\* history, the intensity, and the newer of two entries of equal intensity.
OverallMoodRest(h, t, mood) ==
  /\ Len(h) = 0 => mood = Emotion("neutral", 500, Undefined, Undefined)
  /\ Len(h) > 0 =>
       /\ mood.intensity
            = Min(1000, Max(0, MaxAccumulated(h, t) \div AllWeights(h, t)))
       /\ mood.intensity \in 0..1000
  /\ \A i, j \in 1..Len(h) :
       (h[i].intensity = h[j].intensity
          /\ h[i].timestamp.hour <= h[j].timestamp.hour)
         => Contribution(h[i], t) <= Contribution(h[j], t)

\* C22 as stated: for a non-empty history overallMood.primary is the first
\* label in enumeration order whose accumulated sum of intensity * weight is
\* maximal, overallMood.intensity is clamp01(maximum / sum of the weights),
\* the newer of two entries of equal intensity contributes at least as much,
\* and the empty history gives {neutral, 0.5}.
C22_PrimaryIsFirstMaximal ==
  lastOp.op = "calculateOverallMood" =>
    LET h == calls[lastOp.call].tracking.moodHistory
    IN  /\ OverallMoodRest(h, now, lastOp.result)
        /\ Len(h) > 0 => lastOp.result.primary = FirstMaximal(h, now)

\* C22 amended: as stated when the maximal sum is positive; when it is 0
\* (every entry has intensity 0) the primary is neutral with intensity 0.
C22_WeightedMood ==
  lastOp.op = "calculateOverallMood" =>
    LET h == calls[lastOp.call].tracking.moodHistory
    IN  /\ OverallMoodRest(h, now, lastOp.result)
        /\ Len(h) > 0 =>
             lastOp.result.primary
               = IF MaxAccumulated(h, now) > 0 THEN FirstMaximal(h, now)
                 ELSE "neutral"

\* Two labels tie with a positive sum, the later one in enumeration order
\* recorded first, and the earlier one is the primary mood.
C22_Witness ==
  /\ lastOp.op = "calculateOverallMood"
  /\ LET h == calls[lastOp.call].tracking.moodHistory
     IN  /\ Len(h) = 2
         /\ h[1].emotion = "sadness"
         /\ h[2].emotion = "joy"
         /\ Accumulated(h, "sadness", now) = Accumulated(h, "joy", now)
         /\ Accumulated(h, "joy", now) > 0
         /\ lastOp.result.primary = "joy"

\* ------------------------------------------------------------------ dominantEmotions

\* The number of days of a history whose overallMood.primary is the label.
DaysWith(moodHistory, label) ==
  Cardinality({ i \in 1..Len(moodHistory) : moodHistory[i].overallMood.primary = label })

\* C23: with at least 2 days of data in the window, every label of the
\* dominantEmotions getMoodTrends returns is the primary mood of at least
\* one day of the window, there are at most 3 of them, and no label that
\* occurs on more days than a returned label is left out.
C23_DominantEmotions ==
  (lastOp.op = "getMoodTrends" /\ ~lastOp.result.threw /\ Len(result) >= 2) =>
    LET dominant == lastOp.result.dominantEmotions
        returned == { dominant[k] : k \in 1..Len(dominant) }
    IN  /\ Len(dominant) <= 3
        /\ \A label \in returned : DaysWith(result, label) >= 1
        /\ \A label \in EmotionTypes \ returned :
             \A other \in returned : DaysWith(result, label) <= DaysWith(result, other)

\* ------------------------------------------------------------------ SpecScore

\* The createMemory calls that built the stores searched: contents with
\* and without words of the queries, one ending in a space, with the
\* importance given.
ScoreInputs ==
  << [content |-> << "I", " ", "a", "d", "o", "r", "e", " ", "m", "y", " ", "f", "a", "m", "i", "l", "y" >>, tags |-> << >>, importance |-> 900],
     [content |-> << "r", "a", "n", "d", "o", "m", " ", "u", "n", "r", "e", "l", "a", "t", "e", "d", " ", "t", "e", "x", "t" >>, tags |-> << >>, importance |-> 900],
     [content |-> << "g", "o" >>, tags |-> << << "x" >> >>, importance |-> 500],
     [content |-> << "m", "y", " ", "j", "o", "b" >>, tags |-> << << "x" >> >>, importance |-> 500],
     [content |-> << "z", "z", "z" >>, tags |-> << << "x" >> >>, importance |-> 1000],
     [content |-> << "l", "o", "v", "e" >>, tags |-> << << "x" >> >>, importance |-> 500],
     [content |-> << "h", "e", "l", "l", "o", " " >>, tags |-> << << "x" >> >>, importance |-> 500] >>

\* The queries: the example of the ranking, a query repeating a word, a
\* plain one, the empty string and a single space.
ScoreQueries ==
  { << "I", " ", "l", "o", "v", "e", " ", "m", "y", " ", "f", "a", "m", "i", "l", "y" >>, << "g", "o", " ", "g", "o", " ", "g", "o", " ", "m", "y", " ", "j", "o", "b" >>, << "l", "o", "v", "e", " ", "j", "o", "b" >>, << >>, << " " >> }

\* The list of u1 after createMemory of input a at hour 0 and of input b at
\* hour at.
ScoreStore(a, b, at) ==
  LET first == NewMemory(1, "u1", ScoreInputs[a].content, "memory", NoEmotion,
                         ScoreInputs[a].tags, ScoreInputs[a].importance, 0)
      second == NewMemory(2, "u1", ScoreInputs[b].content, "memory", NoEmotion,
                          ScoreInputs[b].tags, ScoreInputs[b].importance, at)
  IN  addMemory(addMemory(<< >>, first), second)

\* scoredMemories of getRelevantMemories: { memory, score } of every
\* candidate, in the order of the store.
ScoredMemories(list, query, types) ==
  LET filteredMemories == RelevantCandidates(list, types)
  IN  << >> \o [i \in 1..Len(filteredMemories) |->
                 [memory |-> filteredMemories[i],
                  score |-> RelevanceScore(filteredMemories[i], query)]]

\* MemoryManager.getRelevantMemories(query, limit) of user u's manager,
\* with the scores it computed on the way.
ScoreRelevantMemories(u, query, limit) ==
  /\ lastOp.op = "init"
  /\ Retrieved("getRelevantMemories", u,
               [EmptyReq EXCEPT !.query = query, !.limit = limit],
               getRelevantMemories(memStore[u], query, limit, << >>, FALSE),
               ScoredMemories(memStore[u], query, << >>))
  /\ UNCHANGED memVars

\* Two memories were created for u1, in either order, the second at the
\* same hour as the first or later.
InitScore ==
  /\ now = 12
  /\ moodStore = [u \in Users |-> [d \in Days |-> EmptyMoodHash]]
  /\ userStore = [u \in Users |-> EmptyUserHash]
  /\ calls = [c \in Calls |-> IdleCall]
  /\ lastOp = [op |-> "init", user |-> "u1", call |-> 0, result |-> NeutralEmotion]
  /\ \E a, b \in 1..Len(ScoreInputs), at \in {0, 12} :
       /\ a # b
       /\ memStore = [u \in Users |-> IF u = "u1" THEN ScoreStore(a, b, at) ELSE << >>]
  /\ nextId = 3
  /\ created = << >>
  /\ ops = 0
  /\ req = EmptyReq
  /\ result = << >>
  /\ chatStore = [u \in Users |-> << >>]
  /\ turns = [t \in Turns |-> IdleTurn]
  /\ moodSeen = [u \in Users |-> NotSeen]
  /\ giftStore = [u \in Users |-> {}]
  /\ ai = IdleAi

NextScore ==
  \E u \in Users, query \in ScoreQueries, limit \in 1..MaxLimit :
    ScoreRelevantMemories(u, query, limit)

SpecScore == InitScore /\ [][NextScore]_vars

\* T(s): the set of the lower-cased tokens of s between spaces.
TokenSet(s) ==
  LET words == split(toLowerCase(s))
  IN  { words[i] : i \in { j \in 1..Len(words) : words[j] # << >> } }

\* The score of the claim for memory m and query q, times 10000 * |T(q)|
\* (times 10000 when T(q) is empty): 0.4 * importance
\* + 0.4 * |T(q) \cap T(content)| / |T(q)| + 0.2 * |T(q) \cap tags| / |T(q)|,
\* the tags lower-cased as the tokens are.
SetScore(m, q) ==
  LET n == Cardinality(TokenSet(q))
      tags == { toLowerCase(m.tags[i]) : i \in 1..Len(m.tags) }
  IN  IF n = 0 THEN 4 * m.importance
      ELSE 4 * m.importance * n
           + 4000 * Cardinality(TokenSet(q) \cap TokenSet(m.content))
           + 2000 * Cardinality(TokenSet(q) \cap tags)

\* The example of the ranking: of 'I adore my family' and 'random unrelated
\* text', both of importance 0.9, the first is returned first for the query
\* 'I love my family', in whichever order they were stored.
RankingExample ==
  (/\ lastOp.op = "getRelevantMemories"
   /\ req.query = << "I", " ", "l", "o", "v", "e", " ", "m", "y", " ", "f", "a", "m", "i", "l", "y" >>
   /\ req.limit = 2
   /\ { result[i].content : i \in 1..Len(result) }
        = { << "I", " ", "a", "d", "o", "r", "e", " ", "m", "y", " ", "f", "a", "m", "i", "l", "y" >>, << "r", "a", "n", "d", "o", "m", " ", "u", "n", "r", "e", "l", "a", "t", "e", "d", " ", "t", "e", "x", "t" >> })
    => result[1].content = << "I", " ", "a", "d", "o", "r", "e", " ", "m", "y", " ", "f", "a", "m", "i", "l", "y" >>

\* C24: getRelevantMemories ranks by the score over token sets: what it
\* returns is in descending order of 0.4 * importance
\* + 0.4 * |T(q) \cap T(content)| / |T(q)| + 0.2 * |T(q) \cap tags| / |T(q)|,
\* the score is in [0, 1], and of two memories with equal importance and
\* equal tag overlap the one sharing strictly more query tokens is first.
\* Stated for the queries that have a token.
C24_ScoreOverTokenSets ==
  (lastOp.op = "getRelevantMemories" /\ TokenSet(req.query) # {}) =>
    LET q == req.query
        n == Max(1, Cardinality(TokenSet(q)))
        s == << >> \o [i \in 1..Len(result) |-> SetScore(result[i], q)]
    IN  /\ Descending(s)
        /\ \A i \in 1..Len(result) : s[i] \in 0..(10000 * n)
        /\ \A i, j \in 1..Len(result) :
             (/\ result[i].importance = result[j].importance
              /\ Cardinality(TokenSet(q) \cap { toLowerCase(result[i].tags[k]) :
                                                 k \in 1..Len(result[i].tags) })
                   = Cardinality(TokenSet(q) \cap { toLowerCase(result[j].tags[k]) :
                                                     k \in 1..Len(result[j].tags) })
              /\ Cardinality(TokenSet(q) \cap TokenSet(result[i].content))
                   > Cardinality(TokenSet(q) \cap TokenSet(result[j].content)))
             => i < j

\* C25: when the query has no token (the empty string, or spaces only),
\* the score getRelevantMemories gives every memory is 0.4 * importance,
\* both overlap terms being 0 whatever its content and tags.
C25_EmptyQueryScore ==
  (lastOp.op = "getRelevantMemories" /\ TokenSet(req.query) = {}) =>
    \A i \in 1..Len(lastOp.result) :
      lastOp.result[i].score
        = 4 * lastOp.result[i].memory.importance * Len(split(toLowerCase(req.query)))

\* C26: of two candidates of equal score getRelevantMemories puts the one
\* of higher importance first and, importance being equal too, the one
\* created later, whatever the order of the store; a candidate left out by
\* the limit does not precede, in that order, one that is returned.
C26_TieBreaking ==
  lastOp.op = "getRelevantMemories" =>
    LET scored == lastOp.result
        place(k) == IF \E i \in 1..Len(result) : result[i] = scored[k].memory
                    THEN CHOOSE i \in 1..Len(result) : result[i] = scored[k].memory
                    ELSE Len(result) + 1
        before(a, b) ==
          \/ a.importance > b.importance
          \/ /\ a.importance = b.importance
             /\ a.createdAt.hour > b.createdAt.hour
    IN  \A k, l \in 1..Len(scored) :
          (scored[k].score = scored[l].score
             /\ before(scored[k].memory, scored[l].memory))
            => (place(k) < place(l) \/ place(l) = Len(result) + 1)

\* ------------------------------------------------------------------ SpecTags

\* Words with and without a keyword of the three tag extractors.
TagVocabulary ==
  { << "f", "r", "i", "e", "n", "d" >>, << "m", "o", "m" >>, << "W", "o", "r", "k" >>, << "h", "o", "m", "e" >>, << "s", "i", "c", "k" >>, << "h", "e", "l", "l", "o" >>, << "c", "a", "r", "e", "e", "r" >>, << "g", "o", "a", "l" >>, << "t", "r", "i", "p" >> }

\* The texts tagged: up to MaxWords words joined by spaces.
TagTexts == { Join(w) : w \in UNION { [1..n -> TagVocabulary] : n \in 0..MaxWords } }

\* MemoryManager.extractTags(content), as createMemory calls it when no tag
\* is given.
ExtractTags(u) ==
  /\ Unclassified
  /\ Retrieved("extractTags", u, req, extractTags(req.query), NeutralEmotion)
  /\ UNCHANGED memVars

\* aiUtils.detectTopics(message).
DetectTopics(u) ==
  /\ Unclassified
  /\ Retrieved("detectTopics", u, req, detectTopics(req.query), NeutralEmotion)
  /\ UNCHANGED memVars

\* LangChainMemoryManager.fallbackTagExtraction(message).
FallbackTagExtraction(u) ==
  /\ Unclassified
  /\ Retrieved("fallbackTagExtraction", u, req, fallbackTagExtraction(req.query),
               NeutralEmotion)
  /\ UNCHANGED memVars

InitTags ==
  /\ now = 0
  /\ moodStore = [u \in Users |-> [d \in Days |-> EmptyMoodHash]]
  /\ userStore = [u \in Users |-> EmptyUserHash]
  /\ calls = [c \in Calls |-> IdleCall]
  /\ lastOp = [op |-> "init", user |-> "u1", call |-> 0, result |-> NeutralEmotion]
  /\ memStore = [u \in Users |-> << >>]
  /\ nextId = 1
  /\ created = << >>
  /\ ops = 0
  /\ \E text \in TagTexts : req = [EmptyReq EXCEPT !.query = text]
  /\ result = << >>
  /\ chatStore = [u \in Users |-> << >>]
  /\ turns = [t \in Turns |-> IdleTurn]
  /\ moodSeen = [u \in Users |-> NotSeen]
  /\ giftStore = [u \in Users |-> {}]
  /\ ai = IdleAi

NextTags ==
  \/ \E u \in Users : ExtractTags(u)
  \/ \E u \in Users : DetectTopics(u)
  \/ \E u \in Users : FallbackTagExtraction(u)

SpecTags == InitTags /\ [][NextTags]_vars

\* The fixed table of topical tags.
TopicTable ==
  { << "w", "o", "r", "k" >>, << "f", "a", "m", "i", "l", "y" >>, << "r", "e", "l", "a", "t", "i", "o", "n", "s", "h", "i", "p", "s" >>, << "h", "e", "a", "l", "t", "h" >>, << "f", "o", "o", "d" >>, << "t", "r", "a", "v", "e", "l" >>, << "h", "o", "b", "b", "i", "e", "s" >>, << "d", "r", "e", "a", "m", "s" >> }

\* A list of tags is non-empty and duplicate-free, and its members are all
\* of the table or it is general alone.
TagsOfTable(tags) ==
  LET members == { tags[i] : i \in 1..Len(tags) }
  IN  /\ Len(tags) > 0
      /\ Cardinality(members) = Len(tags)
      /\ members \subseteq TopicTable \/ members = { << "g", "e", "n", "e", "r", "a", "l" >> }

\* C27: the tags each of the three extractors returns are non-empty and
\* duplicate-free, and are topical tags of the fixed table or general
\* alone, general never together with a topical tag.
C27_TagsFromTable ==
  lastOp.op \in {"extractTags", "detectTopics", "fallbackTagExtraction"}
    => TagsOfTable(result)

\* The same for detectTopics and fallbackTagExtraction alone.
TopicsAndFallbackOfTable ==
  lastOp.op \in {"detectTopics", "fallbackTagExtraction"} => TagsOfTable(result)

\* ------------------------------------------------------------------ SpecGift

\* Reminders created in one behaviour.
MaxReminders == 2

\* createGiftReminder(occasion, date) of user u's manager, while ids last.
GiftCreate(u, occasion, date) ==
  /\ nextId <= MaxReminders
  /\ CreateGiftReminder(u, occasion, date, Undefined, GiftThrows)

\* Reminders are created, listed, completed and removed, starting from
\* empty sorted sets at hour 12; the users have their data field, or none
\* has.
InitGift ==
  /\ now = 12
  /\ moodStore = [u \in Users |-> [d \in Days |-> EmptyMoodHash]]
  /\ \E registered \in {{}, Users} :
       userStore = [u \in Users |->
                      [EmptyUserHash EXCEPT !.keys = IF u \in registered THEN {"data"}
                                                     ELSE {}]]
  /\ calls = [c \in Calls |-> IdleCall]
  /\ lastOp = [op |-> "init", user |-> "u1", call |-> 0, result |-> NeutralEmotion]
  /\ memStore = [u \in Users |-> << >>]
  /\ nextId = 1
  /\ created = << >>
  /\ ops = 0
  /\ req = EmptyReq
  /\ result = << >>
  /\ chatStore = [u \in Users |-> << >>]
  /\ turns = [t \in Turns |-> IdleTurn]
  /\ moodSeen = [u \in Users |-> NotSeen]
  /\ giftStore = [u \in Users |-> {}]
  /\ ai = IdleAi

NextGift ==
  \/ \E u \in Users, date \in GiftDates : GiftCreate(u, "birthday", date)
  \/ \E u \in Users : GetUpcomingReminders(u, 30)
  \/ \E u \in Users, id \in 1..MaxReminders, selectedGift \in BOOLEAN :
       MarkReminderCompleted(u, id, selectedGift)
  \/ \E u \in Users, id \in 1..MaxReminders : RemoveGiftReminder(u, id)

SpecGift == InitGift /\ [][NextGift]_vars

\* The members of a sorted set that are reminders with the id.
WithId(set, reminderId) == { member \in set : member.id = reminderId }

\* C28: a step of markReminderCompleted(id) for a reminder that
\* getUpcomingReminders returns leaves the user's sorted set with exactly
\* one reminder of that id, completed, and with as many reminders as
\* before.
C28_CompletingReplaces ==
  [][ (/\ lastOp'.op = "markReminderCompleted"
       /\ FindReminder(getUpcomingGifts(giftStore[lastOp'.user], now, 30),
                       lastOp'.call) # 0)
      => LET before == giftStore[lastOp'.user]
             after == giftStore'[lastOp'.user]
         IN  /\ Cardinality(WithId(after, lastOp'.call)) = 1
             /\ \A member \in WithId(after, lastOp'.call) : member.isCompleted
             /\ Cardinality(after) = Cardinality(before) ]_vars

\* ------------------------------------------------------------------ the mood a chat turn stores

\* C29: when a chat turn completes (POST /api/chat answers with success),
\* the currentMood stored for the user, which the next GET /api/chat and
\* getCurrentMood return, is the user's emotion of that turn, the
\* userEmotion of the response.
C29_StoredMoodIsUserEmotion ==
  [][ \A t \in Turns :
        (turns[t].kind = "chat" /\ turns[t].pc = "setUserData" /\ turns'[t].pc = "done")
        => CurrentMoodOf(userStore', turns[t].user) = JsonEmotion(turns[t].mood) ]_vars

\* ------------------------------------------------------------------ SpecNote

\* Today's record of u1 is absent or holds one emotion event; notes are
\* added, emotions recorded and the history read, at hour 12 of day 0.
InitNote ==
  /\ now = 12
  /\ \E today \in { EmptyMoodHash,
                    DayRecord(0, Emotion("joy", 800, Undefined, Undefined)) } :
       moodStore = [u \in Users |-> [d \in Days |->
                      IF u = "u1" /\ d = 0 THEN today ELSE EmptyMoodHash]]
  /\ userStore = [u \in Users |-> EmptyUserHash]
  /\ calls = [c \in Calls |-> IdleCall]
  /\ lastOp = [op |-> "init", user |-> "u1", call |-> 0, result |-> NeutralEmotion]
  /\ memStore = [u \in Users |-> << >>]
  /\ nextId = 1
  /\ created = << >>
  /\ ops = 0
  /\ req = EmptyReq
  /\ result = << >>
  /\ chatStore = [u \in Users |-> << >>]
  /\ turns = [t \in Turns |-> IdleTurn]
  /\ moodSeen = [u \in Users |-> NotSeen]
  /\ giftStore = [u \in Users |-> {}]
  /\ ai = IdleAi

NextNote ==
  \/ \E u \in Users, note \in NoteInputs : AddMoodNote(u, note)
  \/ \E u \in Users, e \in EmotionInputs, trigger \in TriggerInputs :
       RecordEmotion(u, e, trigger)
  \/ \E u \in Users : GetMoodHistory(u)
  \/ \E u \in Users, rounding \in Roundings : GetMoodTrends(u, rounding)

SpecNote == InitNote /\ [][NextNote]_vars

\* C30: a note changes only the notes field of today's record. With or
\* without a note on the day, the day's first recordEmotion completes and
\* leaves a record holding its one entry and an overall mood, and the reads
\* of the history and of the trends complete normally.
C30_NoteLeavesMoodAlone ==
  [][ /\ (/\ lastOp'.op = "trackEmotion"
          /\ "moodHistory" \notin moodStore[lastOp'.user][Today(now)].keys)
         => LET after == moodStore'[lastOp'.user][Today(now)]
            IN  /\ {"moodHistory", "overallMood", "triggers"} \subseteq after.keys
                /\ Len(after.moodHistory) = 1
      /\ lastOp'.op \in {"getMoodHistory", "getMoodTrends"} => ~lastOp'.result.threw
      /\ lastOp'.op = "addMoodNote"
         => \A u \in Users : \A d \in Days :
              /\ moodStore'[u][d].keys \ {"notes"} = moodStore[u][d].keys \ {"notes"}
              /\ moodStore'[u][d].moodHistory = moodStore[u][d].moodHistory
              /\ moodStore'[u][d].overallMood = moodStore[u][d].overallMood
              /\ moodStore'[u][d].triggers = moodStore[u][d].triggers ]_vars

====
